---- MODULE Spec2Model ----
(***************************************************************************)
(* Verification model of the DHS spending-lifecycle views                  *)
(* (src/spending_lifecycle.js).  The file holds two generations of the     *)
(* SpendingLifecycleTracker class:                                         *)
(*   - lines 4-583:   the tracker that reads the pre-joined                *)
(*                    spending_lifecycle_data.json records;                *)
(*   - lines 592-993: the tracker that joins the apportionment CSV with    *)
(*                    the USAspending account-balance CSV in the browser.  *)
(* Definitions of the second class carry the suffix 2 where both classes   *)
(* define a method of the same name.                                       *)
(*                                                                         *)
(* Text is modelled as sequences of one-character strings, money as        *)
(* integers, and a rate as the pair <<numerator, denominator>> of the      *)
(* division the code performs.                                             *)
(***************************************************************************)
EXTENDS Integers, Sequences, FiniteSets

VARIABLES
    phase,             \* "loading" until loadData has settled, then "ready" or "failed"
    apportionmentData, \* this.apportionmentData: rows of the apportionment CSV
    usaspendingData,   \* this.usaspendingData: <<>> is null, <<rows>> the loaded rows
    filters,           \* this.filters
    currentView,       \* this.currentView
    dataArray,         \* combineData: the per-account records before the view rollup
    combinedData,      \* combineData: its return value, the rollup by view
    table,             \* what updateLifecycleStages and updateTable have rendered
    outcome,           \* how the last handler ended: "ok" or the exception it threw
    ombRecords,        \* the apportionment records the aggregation script reads
    detailedData,      \* this.detailedData (first class): <<>> is null
    tasData,           \* this.tasData (first class)
    details,           \* the detail rows toggleTASDetails has put under expanded rows
    tasInput,          \* parseTAS: the argument of the call
    tasParts,          \* parseTAS: what the call returned
    tasCalled,         \* parseTAS: TRUE once the call has been made
    errorShown,        \* TRUE once showError has put an error message on the page
    periodInput,       \* period classifier: the availability-period string
    periodType,        \* period classifier: the type returned, "none" before the call
    yamlConfig,        \* common_utils.js: what config/data_schema.yaml holds
    componentMappings, \* common_utils.js: the module variable, <<>> is null
    displayStandards,  \* common_utils.js: the module variable, <<>> is null
    nameCall,          \* common_utils.js: the last call of getComponentName, <<>> before
    vendorsReady,      \* vendor_analysis.js: TRUE once init has run to its end
    awardsData,        \* vendor_analysis.js: awardsData
    componentFilter,   \* vendor_analysis.js: value of #componentFilter
    vendorSearch,      \* vendor_analysis.js: value of #vendorSearch
    sortBy,            \* vendor_analysis.js: value of #sortBy
    vendorView,        \* vendor_analysis.js: currentView
    currentPage,       \* vendor_analysis.js: currentPage
    itemsPerPage,      \* vendor_analysis.js: itemsPerPage
    vendorComparison,  \* vendor_analysis.js: vendorComparison
    chart,             \* vendor_analysis.js: what #chart shows
    pagination,        \* vendor_analysis.js: #pagination and its two buttons
    stats,             \* vendor_analysis.js: the change indicators updateStats shows, <<>> before
    explorerReady,     \* explorer.js: TRUE once init has installed the handlers
    dataSource,        \* explorer.js: value of #dataSource
    currentSource,     \* explorer.js: currentSource
    flatData,          \* explorer.js: the sources flatData holds records of
    pendingLoads,      \* explorer.js: the sources of the calls of loadDataSource awaiting fetch
    failedLoads,       \* explorer.js: the sources whose load has failed
    groupingOptions,   \* explorer.js: the source #groupByOptions was built for
    filterRow,         \* explorer.js: the source #filterRow was built for
    visualization,     \* explorer.js: what the chart area shows
    treemapLoaded,     \* treemap.js: TRUE once flatData holds the records
    treemapFilters,    \* treemap.js: values of #componentFilter, #yearFilter, #availabilityFilter
    treemapView,       \* treemap.js: currentView
    currentData,       \* treemap.js: currentData, <<>> is null
    breadcrumbPath,    \* treemap.js: breadcrumbPath
    lastClick,         \* treemap.js: the last call of handleNodeClick, <<>> before
    config,            \* config_loader.js: this.config, <<>> is null
    configLoaded,      \* config_loader.js: this.loaded
    loadResult,        \* config_loader.js: how the last call of load() settled
    accessorResult,    \* config_loader.js: the last accessor call and its outcome, <<>> before
    awardsFlat,        \* awards.js: flatData, <<>> is null
    awardsFilters,     \* awards.js: values of #fiscalYear, #componentFilter, #awardTypeFilter
    awardsChildren     \* awards.js: the children of the hierarchy the treemap is drawn from

varsTracker == <<phase, apportionmentData, usaspendingData, filters, currentView,
                 dataArray, combinedData, table, outcome>>

varsParse == <<tasInput, tasParts, tasCalled>>

varsClassify == <<periodInput, periodType>>

varsOmb == <<ombRecords>>

varsLifecycle == <<detailedData, tasData, details>>

vars == <<phase, apportionmentData, usaspendingData, filters, currentView,
          dataArray, combinedData, table, outcome, ombRecords, detailedData,
          tasData, details, tasInput, tasParts, tasCalled, errorShown,
          periodInput, periodType,
          yamlConfig, componentMappings, displayStandards, nameCall,
          vendorsReady, awardsData, componentFilter, vendorSearch, sortBy,
          vendorView, currentPage, itemsPerPage, vendorComparison, chart,
          pagination, stats,
          explorerReady, dataSource, currentSource, flatData, pendingLoads, failedLoads, groupingOptions, filterRow, visualization,
          treemapLoaded, treemapFilters, treemapView, currentData, breadcrumbPath, lastClick,
          config, configLoaded, loadResult, accessorResult,
          awardsFlat, awardsFilters, awardsChildren>>

varsUtils == <<yamlConfig, componentMappings, displayStandards, nameCall>>

varsVendor == <<vendorsReady, awardsData, componentFilter, vendorSearch, sortBy,
                vendorView, currentPage, itemsPerPage, vendorComparison, chart,
                pagination, stats>>

varsExplorer == <<explorerReady, dataSource, currentSource, flatData, pendingLoads, failedLoads, groupingOptions, filterRow, visualization>>

varsTreemap == <<treemapLoaded, treemapFilters, treemapView, currentData, breadcrumbPath, lastClick>>

varsConfig == <<config, configLoaded, loadResult, accessorResult>>

varsAwards == <<awardsFlat, awardsFilters, awardsChildren>>

\* the state of the pages and modules beside spending_lifecycle.js
varsPages == <<varsUtils, varsVendor, varsExplorer, varsTreemap, varsConfig, varsAwards>>

\* common_utils.js has not been used
UtilsIdle ==
    /\ yamlConfig = <<>>
    /\ componentMappings = <<>>
    /\ displayStandards = <<>>
    /\ nameCall = <<>>

\* vendor_analysis.js, lines 5-11: the module variables before init
VendorIdle ==
    /\ vendorsReady = FALSE
    /\ awardsData = <<>>
    /\ componentFilter = <<"a", "l", "l">>
    /\ vendorSearch = <<>>
    /\ sortBy = "fy2025"
    /\ vendorView = "comparison"
    /\ currentPage = 1
    /\ itemsPerPage = 50
    /\ vendorComparison = <<>>
    /\ chart = [kind |-> "loading"]
    /\ pagination = [shown |-> FALSE, prevDisabled |-> FALSE, nextDisabled |-> FALSE]
    /\ stats = <<>>

\* explorer.js, lines 6-10: the module variables and the page before init
ExplorerIdle ==
    /\ explorerReady = FALSE
    /\ dataSource = "apportionment"
    /\ currentSource = "apportionment"
    /\ flatData = {}
    /\ pendingLoads = <<>>
    /\ failedLoads = {}
    /\ groupingOptions = ""
    /\ filterRow = ""
    /\ visualization = [kind |-> "none"]

\* treemap.js, lines 2-5: the global variables and the controls before the data arrive
TreemapIdle ==
    /\ treemapLoaded = FALSE
    /\ treemapFilters = [component |-> "all", year |-> "all", availability |-> "all"]
    /\ treemapView = "bureau-only"
    /\ currentData = <<>>
    /\ breadcrumbPath = <<>>
    /\ lastClick = <<>>

\* js/config_loader.js, lines 7-10: the DataConfig instance after its constructor
ConfigIdle ==
    /\ config = <<>>
    /\ configLoaded = FALSE
    /\ loadResult = "none"
    /\ accessorResult = <<>>

\* awards.js, line 2, and the page before init has run
AwardsIdle ==
    /\ awardsFlat = <<>>
    /\ awardsFilters = [fiscalYear |-> 2025, component |-> <<"a", "l", "l">>, awardType |-> <<"a", "l", "l">>]
    /\ awardsChildren = <<>>

PagesIdle == UtilsIdle /\ VendorIdle /\ ExplorerIdle /\ TreemapIdle /\ ConfigIdle /\ AwardsIdle

(***************************************************************************)
(* Bounds of the model.                                                    *)
(***************************************************************************)
MaxPad == 1            \* characters added before / after an identifier
MaxRows == 3           \* rows in the two CSV files of one run, taken together

(***************************************************************************)
(* Text helpers.                                                           *)
(***************************************************************************)
Digits == {"0", "1", "2", "3", "4", "5", "6", "7", "8", "9"}

Null == [null |-> TRUE]

SeqsUpTo(S, n) == UNION {[1..k -> S] : k \in 0..n}

MinOf(S) == CHOOSE m \in S : \A o \in S : m <= o

(***************************************************************************)
(* parseTAS.  The regular expression                                       *)
(*   /(\d{3})-(\d{4})\/(\d{4})-(\d{4})-(\d{3})/                            *)
(* as the sequence of its character classes ("d" is \d); it carries no     *)
(* anchors, so String.match finds its leftmost occurrence.                 *)
(***************************************************************************)
TASPattern ==
    <<"d", "d", "d", "-", "d", "d", "d", "d", "/", "d", "d", "d", "d", "-",
      "d", "d", "d", "d", "-", "d", "d", "d">>

ClassMatches(cls, ch) == IF cls = "d" THEN ch \in Digits ELSE ch = cls

\* the pattern matches the characters of s that start at position i
MatchesAt(s, i) ==
    /\ i >= 1
    /\ i + Len(TASPattern) - 1 <= Len(s)
    /\ \A k \in 1..Len(TASPattern) : ClassMatches(TASPattern[k], s[i + k - 1])

\* String.prototype.match without the g flag: the leftmost match, or null
RegexMatch(s) ==
    LET starts == {i \in 1..(Len(s) - Len(TASPattern) + 1) : MatchesAt(s, i)}
    IN  IF starts = {} THEN 0 ELSE MinOf(starts)

\* the capture groups of a match that starts at position i
Groups(s, i) ==
    [agency      |-> SubSeq(s, i, i + 2),
     beginYear   |-> SubSeq(s, i + 4, i + 7),
     endYear     |-> SubSeq(s, i + 9, i + 12),
     mainAccount |-> SubSeq(s, i + 14, i + 17),
     subAccount  |-> SubSeq(s, i + 19, i + 21)]

\* mutant: the main account taken from the third capture group
parseTAS_WrongGroup(tas) ==
    IF Len(tas) = 0 THEN Null
    ELSE LET i == RegexMatch(tas)
         IN  IF i = 0 THEN Null
             ELSE [Groups(tas, i) EXCEPT !.mainAccount = Groups(tas, i).endYear]

parseTAS(tas) ==
    IF Len(tas) = 0 THEN Null                  \* if (!tas) return null
    ELSE LET i == RegexMatch(tas)
         IN  IF i = 0 THEN Null ELSE Groups(tas, i)

(***************************************************************************)
(* Identifiers the model feeds to parseTAS.                                *)
(***************************************************************************)
TAS_A ==   \* 070-2023/2025-0530-000
    <<"0", "7", "0", "-", "2", "0", "2", "3", "/", "2", "0", "2", "5", "-",
      "0", "5", "3", "0", "-", "0", "0", "0">>

TAS_B ==   \* 070-2024/2024-0530-000
    <<"0", "7", "0", "-", "2", "0", "2", "4", "/", "2", "0", "2", "4", "-",
      "0", "5", "3", "0", "-", "0", "0", "0">>

TAS_C ==   \* 070-2024/2024-0112-000
    <<"0", "7", "0", "-", "2", "0", "2", "4", "/", "2", "0", "2", "4", "-",
      "0", "1", "1", "2", "-", "0", "0", "0">>

TAS_NOYEAR ==   \* 070-X-0530-000
    <<"0", "7", "0", "-", "X", "-", "0", "5", "3", "0", "-", "0", "0", "0">>

PadChars == {"1", "-", "X"}

ReplaceChars == {"5", "-", "X"}

\* s with the character at position p replaced by ch
Replace(s, p, ch) == [k \in 1..Len(s) |-> IF k = p THEN ch ELSE s[k]]

TASInputs ==
    LET bases   == {TAS_A, TAS_C, TAS_NOYEAR}
        damaged == bases \cup
                   {Replace(b, p, ch) : b \in bases, p \in 1..Len(TAS_NOYEAR),
                                        ch \in ReplaceChars}
                   \cup {Replace(TAS_A, p, ch) : p \in 1..Len(TAS_A),
                                                 ch \in ReplaceChars}
        pads    == SeqsUpTo(PadChars, MaxPad)
    IN  {<<>>} \cup {pre \o d \o post : pre \in pads, d \in damaged, post \in pads}

(***************************************************************************)
(* Numbers in text.  parseFloat reads an optional sign and the longest     *)
(* run of digits that follows (the cells of the model hold whole amounts); *)
(* its result is <<n>>, or <<>> for NaN.  An undefined field is <<>> too,  *)
(* so that OrZero is the code's "x || 0".                                  *)
(***************************************************************************)
DigitValue(c) ==
    CASE c = "0" -> 0 [] c = "1" -> 1 [] c = "2" -> 2 [] c = "3" -> 3
      [] c = "4" -> 4 [] c = "5" -> 5 [] c = "6" -> 6 [] c = "7" -> 7
      [] c = "8" -> 8 [] c = "9" -> 9

RECURSIVE DigitsValue(_)
DigitsValue(ds) ==
    IF ds = <<>> THEN 0
    ELSE 10 * DigitsValue(SubSeq(ds, 1, Len(ds) - 1)) + DigitValue(ds[Len(ds)])

\* the length of the longest prefix of s made of digits
DigitPrefixLen(s) ==
    LET stops == {k \in 1..Len(s) : s[k] \notin Digits}
    IN  IF stops = {} THEN Len(s) ELSE MinOf(stops) - 1

parseFloat(s) ==
    LET neg  == Len(s) > 0 /\ s[1] = "-"
        body == IF neg THEN Tail(s) ELSE s
        n    == DigitPrefixLen(body)
        v    == DigitsValue(SubSeq(body, 1, n))
    IN  IF n = 0 THEN <<>> ELSE <<IF neg THEN 0 - v ELSE v>>

OrZero(x) == IF x = <<>> THEN 0 ELSE x[1]

RECURSIVE FoldLeft(_, _, _)
FoldLeft(Op(_, _), acc, s) ==
    IF s = <<>> THEN acc ELSE FoldLeft(Op, Op(acc, Head(s)), Tail(s))

(***************************************************************************)
(* Literals of the code.                                                   *)
(***************************************************************************)
ALL == <<"a", "l", "l">>                 \* 'all'
DASH == <<"-">>
SPACED_DASH == <<" ", "-", " ">>         \* ' - '

(***************************************************************************)
(* The tracker that joins the two CSV files (second class).                *)
(* A Map is the sequence of its values in insertion order.                 *)
(***************************************************************************)
\* the position in m of the record under key k, 0 when there is none
TasIndex(m, k) ==
    LET hits == {i \in 1..Len(m) : m[i].tas = k}
    IN  IF hits = {} THEN 0 ELSE MinOf(hits)

\* combineData, lines 765-769
filteredApportionment(rows, f) ==
    LET Keep(row) ==
            /\ row.fiscal_year = f.fiscalYear
            /\ (f.component = ALL \/ row.bureau = f.component)
    IN  SelectSeq(rows, Keep)

\* mutant: the amount replaces the running total instead of adding to it
addApportionmentRow_Assign(m, row) ==
    LET i  == TasIndex(m, row.tas)
        m1 == IF i # 0 THEN m
              ELSE Append(m, [tas |-> row.tas, bureau |-> row.bureau,
                              account |-> row.account, fund_type |-> row.fund_type,
                              apportionment |-> 0,
                              obligations |-> <<>>, outlays |-> <<>>])
        j  == IF i # 0 THEN i ELSE Len(m1)
    IN  [m1 EXCEPT ![j].apportionment = OrZero(parseFloat(row.amount))]

\* combineData, lines 773-786: one pass of the forEach over the filtered rows
addApportionmentRow(m, row) ==
    LET i  == TasIndex(m, row.tas)
        m1 == IF i # 0 THEN m
              ELSE Append(m, [tas |-> row.tas, bureau |-> row.bureau,
                              account |-> row.account, fund_type |-> row.fund_type,
                              apportionment |-> 0,
                              obligations |-> <<>>, outlays |-> <<>>])
        j  == IF i # 0 THEN i ELSE Len(m1)
    IN  [m1 EXCEPT ![j].apportionment = @ + OrZero(parseFloat(row.amount))]

\* mutant: the figures of a row are added to what the record holds
mergeUsaspendingRow_Sum(m, row) ==
    LET parts == parseTAS(row.treasury_account_symbol)
    IN  IF parts = Null THEN m
        ELSE LET simpleTAS == parts.agency \o DASH \o parts.mainAccount
                 i == TasIndex(m, simpleTAS)
             IN  IF i = 0 THEN m
                 ELSE [m EXCEPT
                         ![i].obligations =
                             <<OrZero(@) + OrZero(parseFloat(row.obligations_incurred))>>,
                         ![i].outlays =
                             <<OrZero(@) + OrZero(parseFloat(row.gross_outlay_amount))>>]

\* combineData, lines 790-803: one pass of the forEach over usaspendingData
mergeUsaspendingRow(m, row) ==
    LET parts == parseTAS(row.treasury_account_symbol)
    IN  IF parts = Null THEN m
        ELSE LET simpleTAS == parts.agency \o DASH \o parts.mainAccount
                 i == TasIndex(m, simpleTAS)
             IN  IF i = 0 THEN m
                 ELSE [m EXCEPT
                         ![i].obligations =
                             <<OrZero(parseFloat(row.obligations_incurred))>>,
                         ![i].outlays =
                             <<OrZero(parseFloat(row.gross_outlay_amount))>>]

\* combineData, lines 763-807: the per-account records (dataArray)
dataArray2(ap, us, f) ==
    LET apportionmentByTAS ==
            FoldLeft(addApportionmentRow, <<>>, filteredApportionment(ap, f))
    IN  IF us = <<>> THEN apportionmentByTAS         \* if (this.usaspendingData)
        ELSE FoldLeft(mergeUsaspendingRow, apportionmentByTAS, us[1])

\* aggregateByView, lines 832-848: the grouping key of a row
viewKey2(row, view) ==
    CASE view = "component" -> row.bureau
      [] view = "account"   -> row.bureau \o SPACED_DASH \o row.account
      [] view = "tas"       -> row.tas \o SPACED_DASH \o row.account
      [] view = "fund_type" -> row.fund_type
      [] OTHER              -> row.bureau

NameIndex(groups, k) ==
    LET hits == {i \in 1..Len(groups) : groups[i].name = k}
    IN  IF hits = {} THEN 0 ELSE MinOf(hits)

\* Array.prototype.sort((a, b) => b.apportionment - a.apportionment): stable,
\* so x goes behind every element that is not smaller
InsertDescending(sorted, x) ==
    LET before == {i \in 1..Len(sorted) : sorted[i].apportionment >= x.apportionment}
        n == IF before = {} THEN 0
             ELSE CHOOSE i \in before : \A o \in before : o <= i
    IN  SubSeq(sorted, 1, n) \o <<x>> \o SubSeq(sorted, n + 1, Len(sorted))

sortByApportionment(groups) == FoldLeft(InsertDescending, <<>>, groups)

\* aggregateByView, lines 828-868
aggregateByView2(data, view) ==
    LET Add(groups, row) ==
            LET key == viewKey2(row, view)
                i   == NameIndex(groups, key)
                g1  == IF i # 0 THEN groups
                       ELSE Append(groups, [name |-> key, apportionment |-> 0,
                                            obligations |-> 0, outlays |-> 0,
                                            count |-> 0])
                j   == IF i # 0 THEN i ELSE Len(g1)
            IN  [g1 EXCEPT ![j].apportionment = @ + row.apportionment,
                           ![j].obligations = @ + OrZero(row.obligations),
                           ![j].outlays = @ + OrZero(row.outlays),
                           ![j].count = @ + 1]
    IN  sortByApportionment(FoldLeft(Add, <<>>, data))

(***************************************************************************)
(* Rendering.  A percentage is the pair <<n, d>> of the division n / d the *)
(* code performs (d = 0 would be NaN or an infinity); the code's literal 0 *)
(* is <<0, 1>>.                                                            *)
(***************************************************************************)
\* mutant: the division without its guard
percentOf_NoGuard(part, whole) == <<part * 100, whole>>

\* whole > 0 ? (part / whole * 100) : 0
percentOf(part, whole) == IF whole > 0 THEN <<part * 100, whole>> ELSE <<0, 1>>

sumTotals(data) ==
    LET Add(acc, row) ==
            [apportionment |-> acc.apportionment + row.apportionment,
             obligations |-> acc.obligations + row.obligations,
             outlays |-> acc.outlays + row.outlays]
    IN  FoldLeft(Add, [apportionment |-> 0, obligations |-> 0, outlays |-> 0], data)

\* updateLifecycleStages
lifecycleStages(data) ==
    LET totals == sumTotals(data)
    IN  [apportionment |-> totals.apportionment,
         obligations |-> totals.obligations,
         outlays |-> totals.outlays,
         obligationPercent |-> percentOf(totals.obligations, totals.apportionment),
         outlayPercent |-> percentOf(totals.outlays, totals.apportionment)]

tableRow(row) ==
    [name |-> row.name,
     apportionment |-> row.apportionment,
     obligations |-> row.obligations,
     outlays |-> row.outlays,
     obligPercent |-> percentOf(row.obligations, row.apportionment),
     outlayPercent |-> percentOf(row.outlays, row.apportionment),
     executionPercent |-> percentOf(row.outlays, row.obligations)]

\* updateTable: the body rows and, unless the data is empty, the TOTAL row
tableBody(data) ==
    IF data = <<>> THEN [rows |-> <<>>, totals |-> <<>>]
    ELSE LET totals == sumTotals(data)
         IN  [rows |-> [i \in 1..Len(data) |-> tableRow(data[i])],
              totals |-> <<tableRow([name |-> <<"T", "O", "T", "A", "L">>,
                                     apportionment |-> totals.apportionment,
                                     obligations |-> totals.obligations,
                                     outlays |-> totals.outlays])>>]

render(data) == [stages |-> lifecycleStages(data), body |-> tableBody(data)]

NothingRendered == [stages |-> <<>>, body |-> <<>>]

(***************************************************************************)
(* The CSV files of the model.  parseCSV yields one record of text cells   *)
(* per line; bureau, account and fund type go with the account code.       *)
(***************************************************************************)
SIMPLE_0530 == <<"0", "7", "0", "-", "0", "5", "3", "0">>
SIMPLE_0112 == <<"0", "7", "0", "-", "0", "1", "1", "2">>

FY2024 == <<"2", "0", "2", "4">>
FY2025 == <<"2", "0", "2", "5">>
FiscalYears == {FY2024, FY2025}

CBP == <<"C", "B", "P">>
FEMA == <<"F", "E", "M", "A">>
BureauOf(t) == IF t = SIMPLE_0530 THEN CBP ELSE FEMA
AccountOf(t) == IF t = SIMPLE_0530 THEN <<"O", "p", "s">> ELSE <<"M", "g", "t">>
GENERAL_FUND == <<"G", "F">>

\* the amount cell of an apportionment row of fiscal year fy
AmountCellOf(fy) == IF fy = FY2024 THEN <<"5">> ELSE <<"8">>

ApRows ==
    {[tas |-> t, bureau |-> BureauOf(t), account |-> AccountOf(t),
      fund_type |-> GENERAL_FUND, fiscal_year |-> fy, amount |-> AmountCellOf(fy)] :
        t \in {SIMPLE_0530, SIMPLE_0112}, fy \in FiscalYears}

\* <<obligations_incurred, gross_outlay_amount>>; an empty cell parses to NaN
ExAmountCells == {<<<<"1", "0">>, <<"5">>>>, <<<<"2", "0">>, <<>>>>}

\* <<treasury_account_symbol, reporting_fiscal_year>> of the USAspending rows:
\* a multi-year fund reported in two years, two more funds, and a no-year fund
ExSnapshots ==
    {<<TAS_A, FY2024>>, <<TAS_A, FY2025>>, <<TAS_B, FY2025>>, <<TAS_C, FY2025>>}

ExRows ==
    {[treasury_account_symbol |-> k[1], reporting_fiscal_year |-> k[2],
      reporting_period |-> <<"9">>,
      obligations_incurred |-> p[1], gross_outlay_amount |-> p[2]] :
        k \in ExSnapshots, p \in ExAmountCells}
    \cup
    {[treasury_account_symbol |-> TAS_NOYEAR, reporting_fiscal_year |-> FY2025,
      reporting_period |-> <<"9">>,
      obligations_incurred |-> <<"1", "0">>, gross_outlay_amount |-> <<"5">>]}

\* <<apportionment rows, USAspending rows>> of at most MaxRows rows together
CsvInputs ==
    UNION {{<<ap, us>> : ap \in [1..i -> ApRows], us \in SeqsUpTo(ExRows, MaxRows - i)} :
              i \in 0..MaxRows}

ViewOptions2 == {"component", "account", "tas", "fund_type"}

\* the options populateComponents puts in the component dropdown
componentOptions2(ap) == {ALL} \cup {ap[i].bureau : i \in 1..Len(ap)}

(***************************************************************************)
(* The second tracker as a state machine.  setupEventListeners runs before *)
(* loadData is awaited, so the change handlers are live while phase is     *)
(* "loading"; a handler that reads the still-null apportionmentData ends   *)
(* with a TypeError after it has stored the new filter value.              *)
(***************************************************************************)
Init2 ==
    /\ phase = "loading"
    /\ apportionmentData = <<>>
    /\ usaspendingData = <<>>
    /\ filters = [fiscalYear |-> FY2025, component |-> ALL]
    /\ currentView = "component"
    /\ dataArray = <<>>
    /\ combinedData = <<>>
    /\ table = NothingRendered
    /\ outcome = "ok"
    /\ ombRecords = <<>>
    /\ detailedData = <<>>
    /\ tasData = <<>>
    /\ details = {}
    /\ errorShown = FALSE
    /\ tasInput = <<>>
    /\ tasParts = Null
    /\ tasCalled = FALSE
    /\ periodInput = <<>>
    /\ periodType = "none"
    /\ PagesIdle

\* updateView, lines 741-753, with the filters f and the view v in force
updateView2(f, v) ==
    IF apportionmentData' = <<>>
    THEN /\ outcome' = "TypeError"
         /\ UNCHANGED <<dataArray, combinedData, table>>
    ELSE /\ dataArray' = dataArray2(apportionmentData'[1], usaspendingData', f)
         /\ combinedData' = aggregateByView2(dataArray', v)
         /\ table' = render(combinedData')
         /\ outcome' = "ok"

\* init, lines 606-615: loadData has fetched both files, then updateView
LoadBoth2 ==
    /\ phase = "loading"
    /\ \E in \in CsvInputs :
          /\ apportionmentData' = <<in[1]>>
          /\ usaspendingData' = <<in[2]>>
    /\ phase' = "ready"
    /\ UNCHANGED <<filters, currentView>>
    /\ updateView2(filters, currentView)
    /\ UNCHANGED <<varsParse, varsClassify, varsOmb, varsLifecycle, varsPages, errorShown>>

\* the USAspending file is not there: usaspendingData stays null
LoadApportionmentOnly2 ==
    /\ phase = "loading"
    /\ \E ap \in SeqsUpTo(ApRows, MaxRows) : apportionmentData' = <<ap>>
    /\ usaspendingData' = <<>>
    /\ phase' = "ready"
    /\ UNCHANGED <<filters, currentView>>
    /\ updateView2(filters, currentView)
    /\ UNCHANGED <<varsParse, varsClassify, varsOmb, varsLifecycle, varsPages, errorShown>>

\* the apportionment fetch fails: loadData catches and shows the error,
\* init goes on to updateView
LoadFails2 ==
    /\ phase = "loading"
    /\ phase' = "failed"
    /\ UNCHANGED <<apportionmentData, usaspendingData, filters, currentView>>
    /\ updateView2(filters, currentView)
    /\ errorShown' = TRUE
    /\ UNCHANGED <<varsParse, varsClassify, varsOmb, varsLifecycle, varsPages>>

ChangeFiscalYear2 ==
    \E y \in FiscalYears \ {filters.fiscalYear} :
        /\ filters' = [filters EXCEPT !.fiscalYear = y]
        /\ UNCHANGED <<phase, apportionmentData, usaspendingData, currentView>>
        /\ updateView2(filters', currentView)
        /\ UNCHANGED <<varsParse, varsClassify, varsOmb, varsLifecycle, varsPages, errorShown>>

ChangeComponent2 ==
    \E c \in (IF apportionmentData = <<>> THEN {ALL}
              ELSE componentOptions2(apportionmentData[1])) \ {filters.component} :
        /\ filters' = [filters EXCEPT !.component = c]
        /\ UNCHANGED <<phase, apportionmentData, usaspendingData, currentView>>
        /\ updateView2(filters', currentView)
        /\ UNCHANGED <<varsParse, varsClassify, varsOmb, varsLifecycle, varsPages, errorShown>>

ChangeView2 ==
    \E v \in ViewOptions2 \ {currentView} :
        /\ currentView' = v
        /\ UNCHANGED <<phase, apportionmentData, usaspendingData, filters>>
        /\ updateView2(filters, v)
        /\ UNCHANGED <<varsParse, varsClassify, varsOmb, varsLifecycle, varsPages, errorShown>>

Next2 ==
    \/ LoadBoth2
    \/ LoadApportionmentOnly2
    \/ LoadFails2
    \/ ChangeFiscalYear2
    \/ ChangeComponent2
    \/ ChangeView2

SpecCsv == Init2 /\ [][Next2]_vars

\* the tracker's variables where no tracker runs
TrackerIdle ==
    /\ phase = "idle"
    /\ apportionmentData = <<>>
    /\ usaspendingData = <<>>
    /\ filters = [fiscalYear |-> FY2025, component |-> ALL]
    /\ currentView = "component"
    /\ dataArray = <<>>
    /\ combinedData = <<>>
    /\ table = NothingRendered
    /\ outcome = "ok"
    /\ ombRecords = <<>>
    /\ detailedData = <<>>
    /\ tasData = <<>>
    /\ details = {}
    /\ errorShown = FALSE

(***************************************************************************)
(* The parseTAS specification: the identifier is drawn, then parsed.       *)
(***************************************************************************)
InitParse ==
    /\ tasInput \in TASInputs
    /\ tasParts = Null
    /\ tasCalled = FALSE
    /\ periodInput = <<>>
    /\ periodType = "none"
    /\ PagesIdle
    /\ TrackerIdle

CallParseTAS ==
    /\ ~tasCalled
    /\ tasParts' = parseTAS(tasInput)
    /\ tasCalled' = TRUE
    /\ UNCHANGED tasInput
    /\ UNCHANGED <<varsTracker, varsClassify, varsOmb, varsLifecycle, varsPages, errorShown>>

NextParse == CallParseTAS

SpecParse == InitParse /\ [][NextParse]_vars

(***************************************************************************)
(* C10.  Identifier Normalizer.                                            *)
(***************************************************************************)
\* the input is, as a whole, of the form AGENCY-BEGINYEAR/ENDYEAR-MAIN-SUB
IsFivePartForm(s) ==
    /\ Len(s) = 22
    /\ \A k \in 1..22 :
          IF k \in {4, 14, 19} THEN s[k] = "-"
          ELSE IF k = 9 THEN s[k] = "/"
          ELSE s[k] \in Digits

FiveParts(s) ==
    [agency |-> <<s[1], s[2], s[3]>>,
     beginYear |-> <<s[5], s[6], s[7], s[8]>>,
     endYear |-> <<s[10], s[11], s[12], s[13]>>,
     mainAccount |-> <<s[15], s[16], s[17], s[18]>>,
     subAccount |-> <<s[20], s[21], s[22]>>]

\* s holds an identifier of the five-part form somewhere inside it
ContainsFivePartForm(s) ==
    \E i \in 1..Len(s) : i + 21 <= Len(s) /\ IsFivePartForm(SubSeq(s, i, i + 21))

\* C10 as claimed: parseTAS returns null for every input that is not of the
\* five-part form, and exactly the five parts of an input that is.
C10_NullUnlessFivePartForm ==
    tasCalled =>
        IF IsFivePartForm(tasInput)
        THEN tasParts = FiveParts(tasInput)
        ELSE tasParts = Null

(***************************************************************************)
(* Notions of the claims about the join (second tracker).                  *)
(***************************************************************************)
RECURSIVE SumOver(_, _)
\* the sum of f[i] over the finite set I of indices
SumOver(f, I) ==
    IF I = {} THEN 0
    ELSE LET i == CHOOSE j \in I : TRUE IN f[i] + SumOver(f, I \ {i})

\* the amount a text cell states; an empty cell states none
CellAmount(cell) == OrZero(parseFloat(cell))

UsRows == IF usaspendingData = <<>> THEN <<>> ELSE usaspendingData[1]

ApRowsLoaded == IF apportionmentData = <<>> THEN <<>> ELSE apportionmentData[1]

\* the SimplifiedIdentifier (agency, main) of a five-part AccountIdentifier
SimplifiedIdentifier(id) == FiveParts(id).agency \o <<"-">> \o FiveParts(id).mainAccount

\* the ExecutionRecords of AccountIdentifier id: positions in the USAspending file
ExecutionRecordsOf(id) ==
    {k \in 1..Len(UsRows) : UsRows[k].treasury_account_symbol = id}

\* the AccountIdentifiers the execution input reports
ExecutionIdentifiers ==
    {UsRows[k].treasury_account_symbol : k \in 1..Len(UsRows)} \cap {TAS_A, TAS_B, TAS_C}

\* the positions of the reconciled records that carry identifier id
RecordsOf(id) ==
    {i \in 1..Len(dataArray) : dataArray[i].tas = SimplifiedIdentifier(id)}

\* the AccountIdentifiers whose execution rows record i has received
FundsJoinedTo(i) ==
    {id \in ExecutionIdentifiers : dataArray[i].tas = SimplifiedIdentifier(id)}

Ready == phase = "ready" /\ outcome = "ok"

\* two USAspending rows are snapshots of the same
\* (AccountIdentifier, reporting_fiscal_year, reporting_period)
SameSnapshot(a, b) ==
    /\ a.treasury_account_symbol = b.treasury_account_symbol
    /\ a.reporting_fiscal_year = b.reporting_fiscal_year
    /\ a.reporting_period = b.reporting_period

\* row k is the most recent snapshot of its key: no later row repeats it
MostRecentSnapshot(k) ==
    \A j \in (k + 1)..Len(UsRows) : ~SameSnapshot(UsRows[k], UsRows[j])

\* no snapshot of AccountIdentifier id occurs twice in the file
DistinctSnapshots(id) ==
    \A j, k \in ExecutionRecordsOf(id) :
        j # k => ~SameSnapshot(UsRows[j], UsRows[k])

\* C1: for every AccountIdentifier (here: one that is the only fund of its
\* reconciled record and has no duplicate snapshot), obligations_total and
\* outlays_total are the sums of obligations and outlays over all of its
\* ExecutionRecords, each record counted once, whatever fiscal years the
\* apportionment rows carry.
C1_TotalsSumAllExecutionRecords ==
    Ready =>
        \A id \in ExecutionIdentifiers : \A i \in RecordsOf(id) :
            (FundsJoinedTo(i) = {id} /\ DistinctSnapshots(id)) =>
                /\ OrZero(dataArray[i].obligations) =
                      SumOver([k \in 1..Len(UsRows) |->
                                  CellAmount(UsRows[k].obligations_incurred)],
                              ExecutionRecordsOf(id))
                /\ OrZero(dataArray[i].outlays) =
                      SumOver([k \in 1..Len(UsRows) |->
                                  CellAmount(UsRows[k].gross_outlay_amount)],
                              ExecutionRecordsOf(id))

\* C2: the join is keyed on the full AccountIdentifier: no reconciled record
\* receives the execution figures of two funds that share only the
\* SimplifiedIdentifier (agency, main).
C2_JoinOnFullIdentifier ==
    Ready =>
        \A i \in 1..Len(dataArray) :
            dataArray[i].obligations # <<>> => Cardinality(FundsJoinedTo(i)) <= 1

\* the keys of the apportionment aggregate under the filters in force
ApportionmentKeys ==
    LET rows == filteredApportionment(ApRowsLoaded, filters)
    IN  {rows[k].tas : k \in 1..Len(rows)}

\* the match_status a record shows: its execution fields are set or undefined
matchStatus(r) == IF r.obligations = <<>> THEN "apportionment_only" ELSE "both"

\* C3: full outer join: every AccountIdentifier of the apportionment
\* aggregate or of the execution aggregate appears exactly once in the
\* output, with match_status both / apportionment_only / execution_only
\* according to the sides that have it.
C3_FullOuterJoin ==
    Ready =>
        /\ \A key \in ApportionmentKeys :
              /\ Cardinality({i \in 1..Len(dataArray) : dataArray[i].tas = key}) = 1
              /\ \A i \in 1..Len(dataArray) :
                    dataArray[i].tas = key =>
                        matchStatus(dataArray[i]) =
                            IF \E id \in ExecutionIdentifiers :
                                   SimplifiedIdentifier(id) = key
                            THEN "both" ELSE "apportionment_only"
        /\ \A id \in ExecutionIdentifiers : Cardinality(RecordsOf(id)) = 1

\* the rows of key under the component filter, in any fiscal year
RowsOfKey(key) ==
    {k \in 1..Len(ApRowsLoaded) :
        /\ ApRowsLoaded[k].tas = key
        /\ (filters.component = ALL \/ ApRowsLoaded[k].bureau = filters.component)}

MaxOmbRecords == 3     \* apportionment records the aggregation script reads

DigitChar(d) == CHOOSE c \in Digits : DigitValue(c) = d

RECURSIVE NumberToString(_)
\* Number.prototype.toString of a non-negative integer
NumberToString(n) ==
    IF n < 10 THEN <<DigitChar(n)>>
    ELSE Append(NumberToString(n \div 10), DigitChar(n % 10))

PERIOD_2023_2025 == <<"2", "0", "2", "3", "/", "2", "0", "2", "5">>
PERIOD_2025_2025 == <<"2", "0", "2", "5", "/", "2", "0", "2", "5">>

\* budgetAuthority of an iteration of the model
AmountOfIteration(n) == IF n = 1 THEN 5 ELSE 8

OmbRecords ==
    {[tas |-> SIMPLE_0530, availability_period |-> p,
      bureau |-> CBP, account |-> AccountOf(SIMPLE_0530), fund_type |-> GENERAL_FUND,
      fiscal_year |-> fy, iteration |-> n, amount |-> AmountOfIteration(n)] :
        p \in {PERIOD_2023_2025, PERIOD_2025_2025}, fy \in FiscalYears, n \in {1, 2}}

\* the record lists of the model: no record occurs twice
OmbInputs ==
    {rs \in SeqsUpTo(OmbRecords, MaxOmbRecords) :
        \A i, j \in 1..Len(rs) : i # j => rs[i] # rs[j]}

SameCombination(a, b) ==
    /\ a.tas = b.tas
    /\ a.availability_period = b.availability_period
    /\ a.fiscal_year = b.fiscal_year

\* mutant: every iteration is kept
latestIterations_KeepAll(records) == records

\* the records that are the latest iteration of their combination
latestIterations(records) ==
    LET Latest(r) ==
            \A k \in 1..Len(records) :
                SameCombination(records[k], r) => records[k].iteration <= r.iteration
    IN  SelectSeq(records, Latest)

\* a row of dhs_tas_aggregated.csv
aggregatedRow(r) ==
    [tas |-> r.tas, availability_period |-> r.availability_period,
     bureau |-> r.bureau, account |-> r.account, fund_type |-> r.fund_type,
     fiscal_year |-> r.fiscal_year, amount |-> NumberToString(r.amount),
     iteration |-> NumberToString(r.iteration)]

aggregateByTas(records) ==
    LET kept == latestIterations(records)
    IN  [k \in 1..Len(kept) |-> aggregatedRow(kept[k])]

InitOmb ==
    /\ phase = "loading"
    /\ apportionmentData = <<>>
    /\ usaspendingData = <<>>
    /\ filters = [fiscalYear |-> FY2025, component |-> ALL]
    /\ currentView = "component"
    /\ dataArray = <<>>
    /\ combinedData = <<>>
    /\ table = NothingRendered
    /\ outcome = "ok"
    /\ ombRecords \in OmbInputs
    /\ detailedData = <<>>
    /\ tasData = <<>>
    /\ details = {}
    /\ errorShown = FALSE
    /\ tasInput = <<>>
    /\ tasParts = Null
    /\ tasCalled = FALSE
    /\ periodInput = <<>>
    /\ periodType = "none"
    /\ PagesIdle

\* the script has written the CSV and the tracker loads it
LoadAggregated2 ==
    /\ phase = "loading"
    /\ apportionmentData' = <<aggregateByTas(ombRecords)>>
    /\ usaspendingData' = <<>>
    /\ phase' = "ready"
    /\ UNCHANGED <<filters, currentView>>
    /\ updateView2(filters, currentView)
    /\ UNCHANGED <<varsParse, varsClassify, varsOmb, varsLifecycle, varsPages, errorShown>>

NextOmb ==
    \/ LoadAggregated2
    \/ ChangeFiscalYear2
    \/ ChangeComponent2
    \/ ChangeView2

SpecOmb == InitOmb /\ [][NextOmb]_vars

\* the records that count for the record of key under the filters in force:
\* the highest iteration of each combination of the selected fiscal year
CountingRecords(key) ==
    {k \in 1..Len(ombRecords) :
        /\ ombRecords[k].tas = key
        /\ ombRecords[k].fiscal_year = filters.fiscalYear
        /\ (filters.component = ALL \/ ombRecords[k].bureau = filters.component)
        /\ \A j \in 1..Len(ombRecords) :
              SameCombination(ombRecords[j], ombRecords[k]) =>
                  ombRecords[j].iteration <= ombRecords[k].iteration}

\* C4: of the ApportionmentRecords of one account and fiscal year only the
\* highest iteration contributes to the aggregated apportionment total; the
\* amounts of lower iterations are excluded (iteration 1 of $5 and
\* iteration 2 of $8 give $8, not $13).
C4_HighestIterationWins ==
    Ready =>
        \A i \in 1..Len(dataArray) :
            dataArray[i].apportionment =
                SumOver([k \in 1..Len(ombRecords) |-> ombRecords[k].amount],
                        CountingRecords(dataArray[i].tas))

\* iteration 1 ($5) and iteration 2 ($8) of one account and fiscal year:
\* the total is $8
C4_Witness ==
    /\ Ready
    /\ filters.fiscalYear = FY2025
    /\ Len(ombRecords) = 2
    /\ SameCombination(ombRecords[1], ombRecords[2])
    /\ ombRecords[1].fiscal_year = FY2025
    /\ ombRecords[1].iteration = 2 /\ ombRecords[1].amount = 8
    /\ ombRecords[2].iteration = 1 /\ ombRecords[2].amount = 5
    /\ Len(dataArray) = 1
    /\ dataArray[1].apportionment = 8

(***************************************************************************)
(* The tracker of the pre-joined lifecycle records (first class).          *)
(***************************************************************************)
MaxRecords == 2        \* records in spending_lifecycle_data.json

UpperCase == <<"A", "M", "N", "Y">>
LowerCase == <<"a", "m", "n", "y">>

\* String.prototype.toLowerCase over the letters of the labels
toLowerCase(s) ==
    [k \in 1..Len(s) |->
        IF \E u \in 1..Len(UpperCase) : UpperCase[u] = s[k]
        THEN LowerCase[CHOOSE u \in 1..Len(UpperCase) : UpperCase[u] = s[k]]
        ELSE s[k]]

\* String.prototype.replace('-', ''): the first '-' goes, later ones stay
removeFirstDash(s) ==
    LET at == {k \in 1..Len(s) : s[k] = "-"}
    IN  IF at = {} THEN s
        ELSE SubSeq(s, 1, MinOf(at) - 1) \o SubSeq(s, MinOf(at) + 1, Len(s))

\* Number(s) of the == comparison: NaN (<<>>) unless s is digits; '' is 0
StringToNumber(s) ==
    IF s = <<>> THEN <<0>>
    ELSE IF \A k \in 1..Len(s) : s[k] \in Digits THEN <<DigitsValue(s)>>
    ELSE <<>>

\* getFilteredData, lines 101-127
getFilteredData(records, f) ==
    LET Keep(record) ==
            /\ (f.fiscalYear = ALL
                  \/ StringToNumber(f.fiscalYear) = <<record.apportionment_fy>>)
            /\ (f.availabilityType = ALL
                  \/ removeFirstDash(toLowerCase(record.availability_type))
                        = removeFirstDash(toLowerCase(f.availabilityType)))
            /\ (f.component = ALL \/ record.bureau = f.component)
    IN  SelectSeq(records, Keep)

\* the position in m of the entry under key `${tas}|${availability_period}`
KeyIndex(m, tas, period) ==
    LET key  == tas \o <<"|">> \o period
        hits == {i \in 1..Len(m) : m[i].tas \o <<"|">> \o m[i].availability_period = key}
    IN  IF hits = {} THEN 0 ELSE MinOf(hits)

\* combineData, lines 208-233: one pass of the forEach over the filtered records
addRecord(m, record) ==
    LET i  == KeyIndex(m, record.tas, record.availability_period)
        m1 == IF i # 0 THEN m
              ELSE Append(m, [tas |-> record.tas,
                              tas_full |-> record.tas \o DASH \o record.availability_period,
                              availability_period |-> record.availability_period,
                              bureau |-> record.bureau,
                              account |-> record.account_name,
                              fund_type |-> record.fund_type,
                              availability_type |-> record.availability_type,
                              apportionment |-> 0, obligations |-> 0, outlays |-> 0])
        j  == IF i # 0 THEN i ELSE Len(m1)
    IN  [m1 EXCEPT ![j].apportionment = @ + OrZero(record.apportionment_amount),
                   ![j].obligations = @ + OrZero(record.obligations),
                   ![j].outlays = @ + OrZero(record.outlays)]

\* mutant: the map of the run before is carried into the run
combineData_Reuse(records, f) == FoldLeft(addRecord, tasData, getFilteredData(records, f))

\* combineData, lines 201-236: this.tasData
combineData(records, f) == FoldLeft(addRecord, <<>>, getFilteredData(records, f))

\* aggregateByView, lines 266-285: the grouping key of a row
viewKey(row, view) ==
    CASE view = "component"         -> row.bureau
      [] view = "account"           -> row.bureau \o SPACED_DASH \o row.account
      [] view = "tas"               -> row.tas_full \o SPACED_DASH \o row.account
      [] view = "fund_type"         -> row.fund_type
      [] view = "availability_type" -> row.availability_type
      [] OTHER                      -> row.bureau

\* mutant: a group holds the amounts of its last row instead of the sums
addToGroup_LastRow(groups, row, view) ==
    LET key == viewKey(row, view)
        i   == NameIndex(groups, key)
        g1  == IF i # 0 THEN groups
               ELSE Append(groups, [name |-> key, apportionment |-> 0,
                                    obligations |-> 0, outlays |-> 0, count |-> 0,
                                    bureau |-> row.bureau,
                                    availability_type |-> row.availability_type])
        j   == IF i # 0 THEN i ELSE Len(g1)
    IN  [g1 EXCEPT ![j].apportionment = row.apportionment,
                   ![j].obligations = row.obligations,
                   ![j].outlays = row.outlays,
                   ![j].count = @ + 1]

\* aggregateByView, lines 265-303: one pass of the forEach
addToGroup(groups, row, view) ==
    LET key == viewKey(row, view)
        i   == NameIndex(groups, key)
        g1  == IF i # 0 THEN groups
               ELSE Append(groups, [name |-> key, apportionment |-> 0,
                                    obligations |-> 0, outlays |-> 0, count |-> 0,
                                    bureau |-> row.bureau,
                                    availability_type |-> row.availability_type])
        j   == IF i # 0 THEN i ELSE Len(g1)
    IN  [g1 EXCEPT ![j].apportionment = @ + row.apportionment,
                   ![j].obligations = @ + row.obligations,
                   ![j].outlays = @ + row.outlays,
                   ![j].count = @ + 1]

\* aggregateByView, lines 262-307
aggregateByView(data, view) ==
    LET Add(groups, row) == addToGroup(groups, row, view)
    IN  sortByApportionment(FoldLeft(Add, <<>>, data))

\* updateLifecycleStages and updateTable, lines 309-420
updateTable(data, view, tas) ==
    [stages |-> lifecycleStages(data),
     body |-> tableBody(data),
     canExpand |-> data # <<>> /\ view = "component" /\ tas # <<>>]

\* the obligation rate toggleTASDetails sorts by, lines 482-483
obligationRate(t) ==
    IF t.apportionment > 0 THEN <<t.obligations, t.apportionment>> ELSE <<0, 1>>

\* sort((a, b) => bRate - aRate), lines 481-485: stable, descending
InsertByRate(sorted, x) ==
    LET AtLeast(a, b) == a[1] * b[2] >= b[1] * a[2]
        before == {i \in 1..Len(sorted) :
                      AtLeast(obligationRate(sorted[i]), obligationRate(x))}
        n == IF before = {} THEN 0
             ELSE CHOOSE i \in before : \A o \in before : o <= i
    IN  SubSeq(sorted, 1, n) \o <<x>> \o SubSeq(sorted, n + 1, Len(sorted))

\* mutant: the sort by rate reorders this.tasData itself
tasDataAfterToggle_SortInPlace(tas, component, bureau) ==
    FoldLeft(InsertByRate, <<>>, tas)

\* toggleTASDetails, lines 472-485: this.tasData after the drill-down;
\* filter() returns a new array and sort() reorders that one
tasDataAfterToggle(tas, component, bureau) == tas

\* toggleTASDetails, lines 472-511: the detail rows under the row of component
detailRows(tas, component, bureau) ==
    LET Of(t) == t.bureau = component \/ t.bureau = bureau
        componentTAS == FoldLeft(InsertByRate, <<>>, SelectSeq(tas, Of))
    IN  [k \in 1..Len(componentTAS) |->
            tableRow([name |-> componentTAS[k].tas_full \o SPACED_DASH
                                  \o componentTAS[k].account \o <<" ", "(">>
                                  \o componentTAS[k].availability_type \o <<")">>,
                      apportionment |-> componentTAS[k].apportionment,
                      obligations |-> componentTAS[k].obligations,
                      outlays |-> componentTAS[k].outlays])]

(***************************************************************************)
(* The records of spending_lifecycle_data.json in the model: two funds of  *)
(* one bureau, a no-year fund of another; amounts are JSON numbers or      *)
(* null (<<>>); downward adjustments make obligations negative.            *)
(***************************************************************************)
PERIOD_X == <<"X">>
MULTI_YEAR == <<"m", "u", "l", "t", "i", "-", "y", "e", "a", "r">>
ANNUAL == <<"a", "n", "n", "u", "a", "l">>
NO_YEAR == <<"n", "o", "-", "y", "e", "a", "r">>
LABEL_NO_YEAR == <<"N", "o", "-", "Y", "e", "a", "r">>

\* <<tas, availability_period, availability_type, apportionment_fy>>
Funds ==
    {<<SIMPLE_0530, PERIOD_2023_2025, MULTI_YEAR, 2024>>,
     <<SIMPLE_0530, PERIOD_2023_2025, MULTI_YEAR, 2025>>,
     <<SIMPLE_0530, PERIOD_2025_2025, ANNUAL, 2025>>,
     <<SIMPLE_0112, PERIOD_X, LABEL_NO_YEAR, 2025>>}

\* <<apportionment_amount, obligations, outlays>>
Amounts == {<<<<8>>, <<4>>, <<2>>>>, <<<<>>, <<>>, <<>>>>, <<<<4>>, <<0 - 4>>, <<1>>>>}

LifecycleRecords ==
    {[tas |-> f[1], availability_period |-> f[2], bureau |-> BureauOf(f[1]),
      account_name |-> AccountOf(f[1]), fund_type |-> GENERAL_FUND,
      availability_type |-> f[3], apportionment_fy |-> f[4],
      apportionment_amount |-> a[1], obligations |-> a[2], outlays |-> a[3]] :
        f \in Funds, a \in Amounts}

\* a record is of the same fund and apportionment year as another
SameFundYear(a, b) ==
    /\ a.tas = b.tas
    /\ a.availability_period = b.availability_period
    /\ a.apportionment_fy = b.apportionment_fy

\* the record lists of the model: one record per fund and apportionment year
LifecycleInputs ==
    {rs \in SeqsUpTo(LifecycleRecords, MaxRecords) :
        \A i, j \in 1..Len(rs) : i # j => ~SameFundYear(rs[i], rs[j])}

ViewOptions == {"component", "account", "tas", "fund_type", "availability_type"}

AvailabilityOptions == {ALL, ANNUAL, MULTI_YEAR, NO_YEAR}

\* populateComponents, lines 156-175
componentOptions(records) == {ALL} \cup {records[i].bureau : i \in 1..Len(records)}

\* populateFiscalYears, lines 558-560: the fiscal years of the data
yearsOf(records) == {records[i].apportionment_fy : i \in 1..Len(records)}

\* populateFiscalYears, lines 566-575: the options of the dropdown
fiscalYearOptions(records) == {NumberToString(y) : y \in yearsOf(records)}

(***************************************************************************)
(* The first tracker as a state machine.                                   *)
(***************************************************************************)
Init ==
    /\ phase = "loading"
    /\ detailedData = <<>>
    /\ tasData = <<>>
    /\ details = {}
    /\ errorShown = FALSE
    /\ filters = [fiscalYear |-> FY2025, availabilityType |-> ALL, component |-> ALL]
    /\ currentView = "component"
    /\ combinedData = <<>>
    /\ table = NothingRendered
    /\ outcome = "ok"
    /\ apportionmentData = <<>>
    /\ usaspendingData = <<>>
    /\ dataArray = <<>>
    /\ ombRecords = <<>>
    /\ tasInput = <<>>
    /\ tasParts = Null
    /\ tasCalled = FALSE
    /\ periodInput = <<>>
    /\ periodType = "none"
    /\ PagesIdle

varsOther == <<apportionmentData, usaspendingData, dataArray, ombRecords,
               tasInput, tasParts, tasCalled, periodInput, periodType, varsPages>>

\* mutant: a collection that is not there counts as an empty one
updateView_NullAsEmpty(f, v) ==
    /\ tasData' = combineData(IF detailedData' = <<>> THEN <<>> ELSE detailedData'[1], f)
    /\ combinedData' = aggregateByView(tasData', v)
    /\ table' = updateTable(combinedData', v, tasData')
    /\ details' = {}
    /\ outcome' = "ok"

\* updateView, lines 177-189, with the filters f and the view v in force
updateView(f, v) ==
    IF detailedData' = <<>>
    THEN /\ outcome' = "TypeError"
         /\ UNCHANGED <<tasData, combinedData, table, details>>
    ELSE /\ tasData' = combineData(detailedData'[1], f)
         /\ combinedData' = aggregateByView(tasData', v)
         /\ table' = updateTable(combinedData', v, tasData')
         /\ details' = {}
         /\ outcome' = "ok"

\* populateFiscalYears, lines 577-581; with no year in the data the read of
\* years[years.length - 1] throws inside loadData's try and the filter stays
fiscalYearAfterLoad(records, f) ==
    LET years == yearsOf(records)
    IN  IF years = {} \/ (parseFloat(f.fiscalYear) # <<>>
                            /\ parseFloat(f.fiscalYear)[1] \in years)
        THEN f
        ELSE [f EXCEPT !.fiscalYear =
                 NumberToString(CHOOSE y \in years : \A o \in years : o <= y)]

\* init, lines 17-29: loadData has read the records, then updateView
LoadData ==
    /\ phase = "loading"
    /\ \E records \in LifecycleInputs :
          /\ detailedData' = <<records>>
          /\ filters' = fiscalYearAfterLoad(records, filters)
          /\ errorShown' = (yearsOf(records) = {})
    /\ phase' = "ready"
    /\ UNCHANGED currentView
    /\ updateView(filters', currentView)
    /\ UNCHANGED varsOther

\* the fetch fails: loadData catches and shows the error, init goes on to
\* updateView
LoadDataFails ==
    /\ phase = "loading"
    /\ phase' = "failed"
    /\ errorShown' = TRUE
    /\ UNCHANGED <<detailedData, filters, currentView>>
    /\ updateView(filters, currentView)
    /\ UNCHANGED varsOther

ChangeFiscalYear ==
    \E y \in (IF detailedData = <<>> THEN FiscalYears
              ELSE fiscalYearOptions(detailedData[1])) \ {filters.fiscalYear} :
        /\ filters' = [filters EXCEPT !.fiscalYear = y]
        /\ UNCHANGED <<phase, detailedData, currentView>>
        /\ updateView(filters', currentView)
        /\ UNCHANGED <<varsOther, errorShown>>

ChangeAvailabilityType ==
    \E a \in AvailabilityOptions \ {filters.availabilityType} :
        /\ filters' = [filters EXCEPT !.availabilityType = a]
        /\ UNCHANGED <<phase, detailedData, currentView>>
        /\ updateView(filters', currentView)
        /\ UNCHANGED <<varsOther, errorShown>>

ChangeComponent ==
    \E c \in (IF detailedData = <<>> THEN {ALL}
              ELSE componentOptions(detailedData[1])) \ {filters.component} :
        /\ filters' = [filters EXCEPT !.component = c]
        /\ UNCHANGED <<phase, detailedData, currentView>>
        /\ updateView(filters', currentView)
        /\ UNCHANGED <<varsOther, errorShown>>

ChangeView ==
    \E v \in ViewOptions \ {currentView} :
        /\ currentView' = v
        /\ UNCHANGED <<phase, detailedData, filters>>
        /\ updateView(filters, v)
        /\ UNCHANGED <<varsOther, errorShown>>

\* a click on an expandable row: toggleTASDetails, lines 460-523
ToggleTASDetails ==
    /\ table # NothingRendered
    /\ table.canExpand
    /\ \E i \in 1..Len(combinedData) :
          LET component == combinedData[i].name
              expanded  == \E d \in details : d.parent = component
          IN  /\ details' =
                    IF expanded THEN {d \in details : d.parent # component}
                    ELSE details \cup
                           {[parent |-> component,
                             rows |-> detailRows(tasData, component,
                                                 combinedData[i].bureau)]}
              /\ tasData' =
                    IF expanded THEN tasData
                    ELSE tasDataAfterToggle(tasData, component,
                                            combinedData[i].bureau)
    /\ outcome' = "ok"
    /\ UNCHANGED <<phase, detailedData, filters, currentView, combinedData, table>>
    /\ UNCHANGED <<varsOther, errorShown>>

Next ==
    \/ LoadData
    \/ LoadDataFails
    \/ ChangeFiscalYear
    \/ ChangeAvailabilityType
    \/ ChangeComponent
    \/ ChangeView
    \/ ToggleTASDetails

Spec == Init /\ [][Next]_vars

(***************************************************************************)
(* C6, C7, C8.  Metrics Calculator.                                        *)
(***************************************************************************)
\* the rows the page shows: rollup rows, the TOTAL row and the detail rows
TableRows ==
    IF table = NothingRendered THEN {}
    ELSE {table.body.rows[i] : i \in 1..Len(table.body.rows)}

TotalsRows ==
    IF table = NothingRendered THEN {}
    ELSE {table.body.totals[i] : i \in 1..Len(table.body.totals)}

DetailRowsShown == UNION {{d.rows[i] : i \in 1..Len(d.rows)} : d \in details}

RenderedRows == TableRows \cup TotalsRows \cup DetailRowsShown

\* the percentage p is a number (neither NaN nor infinite)
IsNumber(p) == p[2] # 0

\* the percentage p is 100 * n / d
IsQuotient(p, n, d) == IsNumber(p) /\ p[1] * d = 100 * n * p[2]

IsZero(p) == IsNumber(p) /\ p[1] = 0

\* the rate as claimed: the quotient, and 0 exactly when the denominator is 0
ClaimedRate(p, n, d) == IF d = 0 THEN IsZero(p) ELSE IsQuotient(p, n, d)

\* the rate as computed: the quotient over a positive denominator, else 0
GuardedRate(p, n, d) == IF d > 0 THEN IsQuotient(p, n, d) ELSE IsZero(p)

\* C6 as claimed: the three rates of a record are the quotients, each 0
\* exactly when its denominator is 0, never NaN or infinite.
C6_RatesZeroOnlyAtZeroDenominator ==
    \A r \in RenderedRows :
        /\ ClaimedRate(r.obligPercent, r.obligations, r.apportionment)
        /\ ClaimedRate(r.outlayPercent, r.outlays, r.apportionment)
        /\ ClaimedRate(r.executionPercent, r.outlays, r.obligations)

\* C6 amended: obligation_rate = obligations_total / apportionment_total,
\* outlay_rate = outlays_total / apportionment_total and execution_rate =
\* outlays_total / obligations_total when the denominator is positive; each
\* rate is 0 when its denominator is 0 or negative; no rate is NaN or
\* infinite.
C6_RatesGuardedByPositiveDenominator ==
    \A r \in RenderedRows :
        /\ GuardedRate(r.obligPercent, r.obligations, r.apportionment)
        /\ GuardedRate(r.outlayPercent, r.outlays, r.apportionment)
        /\ GuardedRate(r.executionPercent, r.outlays, r.obligations)

\* a row whose obligations are 0 while its outlays are not: its execution
\* rate is 0 and its outlay rate is the quotient
C6_Witness ==
    /\ currentView = "fund_type"
    /\ \E r \in TableRows :
          /\ r.obligations = 0 /\ r.outlays = 3 /\ r.apportionment = 12
          /\ r.executionPercent = <<0, 1>>
          /\ r.outlayPercent = <<300, 12>>
          /\ r.obligPercent = <<0, 12>>

\* the records of tasData that the rollup row named name is made of
Members(name) ==
    {k \in 1..Len(tasData) : viewKey(tasData[k], currentView) = name}

Apportioned(K) == SumOver([k \in 1..Len(tasData) |-> tasData[k].apportionment], K)
Obligated(K) == SumOver([k \in 1..Len(tasData) |-> tasData[k].obligations], K)
Outlaid(K) == SumOver([k \in 1..Len(tasData) |-> tasData[k].outlays], K)

\* the rates of row r are Rate of the summed amounts of the records K
RatesOfSums(Rate(_, _, _), r, K) ==
    /\ Rate(r.obligPercent, Obligated(K), Apportioned(K))
    /\ Rate(r.outlayPercent, Outlaid(K), Apportioned(K))
    /\ Rate(r.executionPercent, Outlaid(K), Obligated(K))

StagesOfSums(Rate(_, _, _)) ==
    table # NothingRendered =>
        /\ Rate(table.stages.obligationPercent,
                Obligated(1..Len(tasData)), Apportioned(1..Len(tasData)))
        /\ Rate(table.stages.outlayPercent,
                Outlaid(1..Len(tasData)), Apportioned(1..Len(tasData)))

\* C7 as claimed: each rate of a rollup is the sum of the numerators over
\* the sum of the denominators of its member records, 0 when the summed
\* denominator is 0; never an average of the members' rates.
C7_RollupRatesOfSums ==
    /\ \A r \in TableRows : RatesOfSums(ClaimedRate, r, Members(r.name))
    /\ \A r \in TotalsRows : RatesOfSums(ClaimedRate, r, 1..Len(tasData))
    /\ StagesOfSums(ClaimedRate)

\* C7 amended: each rate of a rollup is the sum of the numerators over the
\* sum of the denominators of its member records when the summed
\* denominator is positive, and 0 when the summed denominator is 0 or
\* negative; never an average of the members' rates.
C7_RollupRatesOfGuardedSums ==
    /\ \A r \in TableRows : RatesOfSums(GuardedRate, r, Members(r.name))
    /\ \A r \in TotalsRows : RatesOfSums(GuardedRate, r, 1..Len(tasData))
    /\ StagesOfSums(GuardedRate)

\* a rollup of two records whose obligation rates are 50% and -100%: its
\* rate is 0 / 12, the ratio of the sums (the average would be -25%)
C7_Witness ==
    /\ currentView = "component"
    /\ Len(tasData) = 2
    /\ \E r \in TableRows :
          /\ Members(r.name) = {1, 2}
          /\ tasData[1].apportionment = 8 /\ tasData[1].obligations = 4
          /\ tasData[2].apportionment = 4 /\ tasData[2].obligations = 0 - 4
          /\ r.apportionment = 12 /\ r.obligations = 0
          /\ r.outlayPercent = <<300, 12>>
          /\ r.obligPercent = <<0, 12>>

\* the rate p is not negative
NonNegative(p) == IsNumber(p) /\ p[1] * p[2] >= 0

\* C8 as claimed: 0 <= obligation_rate for every record, and the rate is 0
\* (not NaN, not infinite) when apportionment_total is 0.
C8_ObligationRateNonNegative ==
    \A r \in RenderedRows :
        /\ NonNegative(r.obligPercent)
        /\ r.apportionment = 0 => IsZero(r.obligPercent)

\* C8 amended: the obligation rate is 0 (never NaN or infinite) when
\* apportionment_total is 0, and 0 <= obligation_rate when
\* obligations_total >= 0; with negative obligations_total over a positive
\* apportionment_total the rate is negative.
C8_ObligationRateSignOfObligations ==
    \A r \in RenderedRows :
        /\ IsNumber(r.obligPercent)
        /\ r.apportionment = 0 => IsZero(r.obligPercent)
        /\ r.obligations >= 0 => NonNegative(r.obligPercent)
        /\ (r.obligations < 0 /\ r.apportionment > 0) => ~NonNegative(r.obligPercent)

\* detail rows under an expanded component: one without apportionment at
\* rate 0 and one with negative obligations at a negative rate
C8_Witness ==
    /\ \E r \in DetailRowsShown : r.apportionment = 0 /\ r.obligPercent = <<0, 1>>
    /\ \E r \in DetailRowsShown :
          r.apportionment = 4 /\ r.obligations = 0 - 4 /\ r.obligPercent = <<0 - 400, 4>>

(***************************************************************************)
(* C11, C20.  Diagnostics of the join (second tracker).                    *)
(***************************************************************************)
\* combineData, lines 763-809: what a run emits beside the rollup it
\* returns.  It keeps no counter and logs nothing, so no count is emitted.
emittedDiagnostics2(ap, us, f) == {}

\* the USAspending rows whose identifier parseTAS rejects
RejectedRows ==
    {k \in 1..Len(UsRows) : parseTAS(UsRows[k].treasury_account_symbol) = Null}

\* the USAspending rows without the rejected ones
AcceptedRowsOnly == SelectSeq(UsRows, LAMBDA row : parseTAS(row.treasury_account_symbol) # Null)

\* the rejected rows are skipped: the run ends without an error and its
\* records are those of the file without the rejected rows
RejectedRowsSkipped ==
    (phase = "ready" /\ usaspendingData # <<>>) =>
        /\ outcome = "ok"
        /\ dataArray = dataArray2(ApRowsLoaded, <<AcceptedRowsOnly>>, filters)

\* C11: every row whose identifier the normalizer rejects is skipped
\* without aborting the run (all other rows are processed, the skipped row
\* adds to no total), and the dropped-row count of the diagnostics goes up
\* by exactly one per such row.
C11_RejectedRowsSkippedAndCounted ==
    (phase = "ready" /\ RejectedRows # {}) =>
        /\ RejectedRowsSkipped
        /\ \E d \in emittedDiagnostics2(ApRowsLoaded, usaspendingData, filters) :
              d.name = "dropped_rows" /\ d.count = Cardinality(RejectedRows)

(***************************************************************************)
(* The Period Classifier.  The scripts that derive the availability type   *)
(* are not among the sources; the classifier is modelled after its         *)
(* description: X is no-year, a period with '/' is multi-year, any other   *)
(* is annual, and, as the README lists 2025/2025 under annual money, a     *)
(* range whose two years are equal is annual.                              *)
(***************************************************************************)
MaxPeriodLen == 3      \* characters of an arbitrary period string

IsYear(s) == Len(s) = 4 /\ \A k \in 1..4 : s[k] \in Digits

\* p is written BEGINYEAR/ENDYEAR
IsYearRange(p) ==
    /\ Len(p) = 9
    /\ p[5] = "/"
    /\ IsYear(SubSeq(p, 1, 4))
    /\ IsYear(SubSeq(p, 6, 9))

beginYearOf(p) == DigitsValue(SubSeq(p, 1, 4))
endYearOf(p) == DigitsValue(SubSeq(p, 6, 9))

containsSlash(p) == \E k \in 1..Len(p) : p[k] = "/"

\* mutant: every period with '/' is multi-year
classify_SlashOnly(p) ==
    IF p = PERIOD_X THEN "no-year"
    ELSE IF containsSlash(p) THEN "multi-year"
    ELSE "annual"

classify(p) ==
    IF p = PERIOD_X THEN "no-year"
    ELSE IF IsYearRange(p) /\ beginYearOf(p) = endYearOf(p) THEN "annual"
    ELSE IF containsSlash(p) THEN "multi-year"
    ELSE "annual"

PeriodChars == {"X", "x", "/", "2"}

YearTexts == {NumberToString(y) : y \in 2023..2025}

\* arbitrary short strings, single years and year ranges
PeriodInputs ==
    SeqsUpTo(PeriodChars, MaxPeriodLen)
    \cup YearTexts
    \cup {b \o <<"/">> \o e : b \in YearTexts, e \in YearTexts}

InitClassify ==
    /\ periodInput \in PeriodInputs
    /\ periodType = "none"
    /\ PagesIdle
    /\ tasInput = <<>>
    /\ tasParts = Null
    /\ tasCalled = FALSE
    /\ TrackerIdle

CallClassify ==
    /\ periodType = "none"
    /\ periodType' = classify(periodInput)
    /\ UNCHANGED periodInput
    /\ UNCHANGED <<varsTracker, varsParse, varsOmb, varsLifecycle, varsPages, errorShown>>

NextClassify == CallClassify

SpecClassify == InitClassify /\ [][NextClassify]_vars

OneYearRange(p) ==
    /\ Len(p) = 9
    /\ p[5] = "/"
    /\ \A k \in 1..4 : p[k] \in Digits /\ p[k + 5] = p[k]

LabelVariants(label) ==
    {toLowerCase(label), removeFirstDash(label), ANNUAL}

\* the records with the label of record k replaced
WithLabel(records, k, label) ==
    [records EXCEPT ![k].availability_type = label]

\* what the page shows for the records under the filters and view in force
ShownFor(records) ==
    LET tas == combineData(records, filters)
    IN  updateTable(aggregateByView(tas, currentView), currentView, tas)

\* C13: the availability type used in output, filtering and grouping is
\* recomputed from the availability period and the upstream label is never
\* trusted: inputs that differ only in the casing, hyphenation or value of
\* a record's label give identical results.
C13_LabelNeverTrusted ==
    (phase = "ready" /\ outcome = "ok") =>
        \A k \in 1..Len(detailedData[1]) :
            \A label \in LabelVariants(detailedData[1][k].availability_type) :
                ShownFor(WithLabel(detailedData[1], k, label)) = ShownFor(detailedData[1])

(***************************************************************************)
(* C14.  Classification and the data model.                                *)
(***************************************************************************)
\* p is an availability period of the data model: X, a year, or a range
\* of years that does not run backwards
IsAvailabilityPeriod(p) ==
    \/ p = <<"X">>
    \/ IsYear(p)
    \/ IsYearRange(p) /\ beginYearOf(p) <= endYearOf(p)

\* the begin year of p equals its end year
BeginEqualsEnd(p) ==
    \/ IsYear(p)
    \/ IsYearRange(p) /\ beginYearOf(p) = endYearOf(p)

C15_BeginYearNotAfterEndYear ==
    (tasCalled /\ tasParts # Null) =>
        DigitsValue(tasParts.beginYear) <= DigitsValue(tasParts.endYear)

(***************************************************************************)
(* C16.  Determinism and isolation between runs.  Each call of updateView  *)
(* is a run; its inputs are the loaded records and the filters in force.   *)
(***************************************************************************)
\* the records the current filters let into a run
RunInputs == getFilteredData(detailedData[1], filters)

\* the key a run groups a record or a reconciled row under
RunKey(r) == <<r.tas, r.availability_period>>

\* the positions in the run's inputs of the records under key
InputsUnder(key) == {k \in 1..Len(RunInputs) : RunKey(RunInputs[k]) = key}

\* the amounts of the run's inputs, null counted as 0
InputApportionment == [k \in 1..Len(RunInputs) |-> OrZero(RunInputs[k].apportionment_amount)]
InputObligations == [k \in 1..Len(RunInputs) |-> OrZero(RunInputs[k].obligations)]
InputOutlays == [k \in 1..Len(RunInputs) |-> OrZero(RunInputs[k].outlays)]

\* row t is what the inputs under its key state, and nothing else
RowOfInputsOnly(t) ==
    /\ InputsUnder(RunKey(t)) # {}
    /\ t.apportionment = SumOver(InputApportionment, InputsUnder(RunKey(t)))
    /\ t.obligations = SumOver(InputObligations, InputsUnder(RunKey(t)))
    /\ t.outlays = SumOver(InputOutlays, InputsUnder(RunKey(t)))
    /\ LET first == RunInputs[MinOf(InputsUnder(RunKey(t)))]
       IN  /\ t.bureau = first.bureau
           /\ t.account = first.account_name
           /\ t.fund_type = first.fund_type
           /\ t.availability_type = first.availability_type

\* C16: a reconciliation run is a function of its inputs only: whatever
\* runs and view or filter changes came before, the reconciled collection
\* is the one the loaded records and the filters in force determine (one
\* row per key of the inputs, in the order the keys first appear, with the
\* sums of the inputs under the key), so running again on identical inputs
\* yields the identical collection and nothing an earlier run wrote is
\* read by a later one.
C16_RunIsFunctionOfInputs ==
    (detailedData # <<>> /\ outcome = "ok") =>
        /\ \A k \in 1..Len(RunInputs) :
              \E i \in 1..Len(tasData) : RunKey(tasData[i]) = RunKey(RunInputs[k])
        /\ \A i \in 1..Len(tasData) : RowOfInputsOnly(tasData[i])
        /\ \A i, j \in 1..Len(tasData) :
              i < j => MinOf(InputsUnder(RunKey(tasData[i])))
                          < MinOf(InputsUnder(RunKey(tasData[j])))
        /\ combinedData = aggregateByView(tasData, currentView)

\* a later run, after the run of the load and a change of the availability
\* filter, has produced rows with amounts
C16_Witness ==
    /\ detailedData # <<>>
    /\ outcome = "ok"
    /\ filters.availabilityType # ALL
    /\ currentView # "component"
    /\ \E i \in 1..Len(tasData) : tasData[i].apportionment > 0 /\ tasData[i].outlays > 0

(***************************************************************************)
(* C17.  The reconciled records after their creation.                      *)
(***************************************************************************)
\* the obligation rate of a is below that of b
RateBelow(a, b) ==
    obligationRate(a)[1] * obligationRate(b)[2]
        < obligationRate(b)[1] * obligationRate(a)[2]

\* C17: once a run has created the reconciled records, no rollup, sort
\* or drill-down changes a field, the membership or the order of the set:
\* every step that leaves the loaded records and the filters alone (a
\* rollup under another view, the expansion or collapse of a row) leaves
\* the reconciled records as they were.
C17_ReconciledRecordsNotMutated ==
    [][(detailedData' = detailedData /\ filters' = filters) => tasData' = tasData]_vars

\* a row is expanded whose detail rows were sorted into another order
\* than the reconciled records have
C17_Witness ==
    /\ outcome = "ok"
    /\ \E d \in details : Len(d.rows) >= 2
    /\ \E i, j \in 1..Len(tasData) :
          /\ i < j
          /\ tasData[i].bureau = tasData[j].bureau
          /\ RateBelow(tasData[i], tasData[j])

(***************************************************************************)
(* C18.  Loading before reconciliation.  init installs the listeners       *)
(* (line 22) before it awaits loadData (line 25), so a change event can    *)
(* arrive while the fetch is pending; the run it starts reads              *)
(* this.detailedData, still null, and ends in a TypeError.                 *)
(***************************************************************************)
\* C18: combineData never executes before the loading of the source data
\* has completed: while the load is pending no run has been started, so
\* none has failed on the collection that is not there yet.
C18_NoRunBeforeLoadCompletes ==
    phase = "loading" => outcome # "TypeError"

(***************************************************************************)
(* C19.  A load that fails.  loadData catches the error of fetch, of       *)
(* response.json and of reading a records value that is no array (lines    *)
(* 83-98), shows the message and leaves this.detailedData without a list;  *)
(* every later run stops at the first read of it.                          *)
(***************************************************************************)
\* C19: when the record collection cannot be loaded the run fails as a
\* whole: the failure has been reported to the user, every run on the
\* missing collection has ended in an error, and no aggregate, table or
\* detail row has been produced from it.
C19_FailedLoadFailsWholeRun ==
    phase = "failed" =>
        /\ errorShown
        /\ outcome = "TypeError"
        /\ tasData = <<>>
        /\ combinedData = <<>>
        /\ table = NothingRendered
        /\ details = {}

\* the load has failed and the user has changed a filter and the view
\* afterwards, or before
C19_Witness ==
    /\ phase = "failed"
    /\ errorShown
    /\ filters.availabilityType # ALL
    /\ currentView # "component"

(***************************************************************************)
(* C20.  Diagnostics of the join.                                          *)
(***************************************************************************)
\* the number of reconciled records of match status st
RecordsWithStatus(st) ==
    Cardinality({i \in 1..Len(dataArray) : matchStatus(dataArray[i]) = st})

\* the run has emitted the count n under name
CountEmitted(name, n) ==
    \E d \in emittedDiagnostics2(ApRowsLoaded, usaspendingData, filters) :
        d.name = name /\ d.count = n

\* the run completes however many keys are unmatched
RunCompletesWithUnmatchedKeys ==
    (phase = "ready" /\ usaspendingData # <<>>) => outcome = "ok"

\* C20: the diagnostics a run emits report the counts of
\* apportionment-only, execution-only and matched keys, equal to the
\* numbers of output records of match status apportionment_only,
\* execution_only and both, and the run completes however many keys are
\* unmatched.
C20_DiagnosticCountsByMatchStatus ==
    (phase = "ready" /\ usaspendingData # <<>>) =>
        /\ outcome = "ok"
        /\ CountEmitted("apportionment_only", RecordsWithStatus("apportionment_only"))
        /\ CountEmitted("execution_only", RecordsWithStatus("execution_only"))
        /\ CountEmitted("both", RecordsWithStatus("both"))

(***************************************************************************)
(* The other pages.  While one of them runs, the trackers of               *)
(* spending_lifecycle.js stay as they are.                                 *)
(***************************************************************************)
varsSpending == <<varsTracker, varsParse, varsClassify, varsOmb, varsLifecycle,
                  errorShown>>

SpendingIdle ==
    /\ TrackerIdle
    /\ tasInput = <<>>
    /\ tasParts = Null
    /\ tasCalled = FALSE
    /\ periodInput = <<>>
    /\ periodType = "none"

\* what the steps of one page leave alone, and what Init of its
\* specification says of the rest
varsBesideUtils == <<varsSpending, varsVendor, varsExplorer, varsTreemap, varsConfig, varsAwards>>
IdleBesideUtils == SpendingIdle /\ VendorIdle /\ ExplorerIdle /\ TreemapIdle /\ ConfigIdle /\ AwardsIdle

varsBesideVendor == <<varsSpending, varsUtils, varsExplorer, varsTreemap, varsConfig, varsAwards>>
IdleBesideVendor == SpendingIdle /\ UtilsIdle /\ ExplorerIdle /\ TreemapIdle /\ ConfigIdle /\ AwardsIdle

varsBesideExplorer == <<varsSpending, varsUtils, varsVendor, varsTreemap, varsConfig, varsAwards>>
IdleBesideExplorer == SpendingIdle /\ UtilsIdle /\ VendorIdle /\ TreemapIdle /\ ConfigIdle /\ AwardsIdle

varsBesideTreemap == <<varsSpending, varsUtils, varsVendor, varsExplorer, varsConfig, varsAwards>>
IdleBesideTreemap == SpendingIdle /\ UtilsIdle /\ VendorIdle /\ ExplorerIdle /\ ConfigIdle /\ AwardsIdle

varsBesideConfig == <<varsSpending, varsUtils, varsVendor, varsExplorer, varsTreemap, varsAwards>>
IdleBesideConfig == SpendingIdle /\ UtilsIdle /\ VendorIdle /\ ExplorerIdle /\ TreemapIdle /\ AwardsIdle

varsBesideAwards == <<varsSpending, varsUtils, varsVendor, varsExplorer, varsTreemap, varsConfig>>
IdleBesideAwards == SpendingIdle /\ UtilsIdle /\ VendorIdle /\ ExplorerIdle /\ TreemapIdle /\ ConfigIdle

(***************************************************************************)
(* src/js/common_utils.js: component names.  An object of the YAML file    *)
(* is a function from its keys; a key that may be missing holds <<>> when  *)
(* it is, <<value>> when it is there.                                      *)
(***************************************************************************)
FEMA_FULL == "Federal Emergency Management Agency"
CISA_FULL == "Cybersecurity and Infrastructure Security Agency"
TSA_FULL == "Transportation Security Administration"

\* the values of dimensions.component.abbreviations in the model
AbbreviationMaps ==
    {[n \in {} |-> ""],
     [n \in {FEMA_FULL} |-> "FEMA"],
     [n \in {FEMA_FULL, CISA_FULL} |-> IF n = FEMA_FULL THEN "FEMA" ELSE "CISA"]}

NameContexts == {"label", "table"}

\* the values of display_standards in the model: use_abbreviations_in
\* names some of the contexts, or is missing (the empty function)
DisplayStandardsValues ==
    {[use_abbreviations_in |-> u] :
        u \in UNION {[C -> BOOLEAN] : C \in SUBSET NameContexts}}

\* config/data_schema.yaml after jsyaml.load
YamlConfigs ==
    {[abbreviations |-> a, display_standards |-> d] :
        a \in {<<>>} \cup {<<m>> : m \in AbbreviationMaps},
        d \in {<<>>} \cup {<<v>> : v \in DisplayStandardsValues}}

\* getComponentName, lines 57-76
getComponentName(fullName, context) ==
    IF fullName = "" THEN ""
    ELSE IF componentMappings = <<>> \/ displayStandards = <<>> THEN fullName
    ELSE LET use == displayStandards[1].use_abbreviations_in
             useAbbreviation == ~(context \in DOMAIN use /\ use[context] = FALSE)
             mappings == componentMappings[1]
         IN  IF useAbbreviation /\ fullName \in DOMAIN mappings
                  /\ mappings[fullName] # ""
             THEN mappings[fullName]
             ELSE fullName

InitUtils ==
    /\ yamlConfig \in {<<c>> : c \in YamlConfigs}
    /\ componentMappings = <<>>
    /\ displayStandards = <<>>
    /\ nameCall = <<>>
    /\ IdleBesideUtils

\* loadComponentMappings, lines 12-44: the file is fetched and parsed.
\* dataConfig (config_loader.js) defines no getConfig, so the branch of
\* lines 17-25 is not taken.
LoadComponentMappings ==
    /\ componentMappings = <<>>
    /\ componentMappings' =
          IF yamlConfig[1].abbreviations # <<>> THEN yamlConfig[1].abbreviations
          ELSE << [n \in {} |-> ""] >>
    /\ displayStandards' =
          IF yamlConfig[1].display_standards # <<>> THEN yamlConfig[1].display_standards
          ELSE displayStandards
    /\ UNCHANGED <<yamlConfig, nameCall>>
    /\ UNCHANGED varsBesideUtils

\* loadComponentMappings, lines 45-49: fetch or jsyaml.load throws
LoadComponentMappingsFails ==
    /\ componentMappings = <<>>
    /\ componentMappings' = << [n \in {} |-> ""] >>
    /\ UNCHANGED <<yamlConfig, displayStandards, nameCall>>
    /\ UNCHANGED varsBesideUtils

\* a page calls getComponentName
CallGetComponentName ==
    /\ \E fullName \in {"", FEMA_FULL, CISA_FULL, TSA_FULL}, context \in NameContexts :
          nameCall' = <<[fullName |-> fullName, context |-> context,
                         loaded |-> componentMappings # <<>>,
                         result |-> getComponentName(fullName, context)]>>
    /\ UNCHANGED <<yamlConfig, componentMappings, displayStandards>>
    /\ UNCHANGED varsBesideUtils

NextUtils ==
    \/ LoadComponentMappings
    \/ LoadComponentMappingsFails
    \/ CallGetComponentName

SpecUtils == InitUtils /\ [][NextUtils]_vars

(***************************************************************************)
(* C21.  Component abbreviations.                                          *)
(***************************************************************************)
\* the abbreviations configured under dimensions.component.abbreviations
ConfiguredAbbreviations ==
    IF yamlConfig[1].abbreviations = <<>> THEN [n \in {} |-> ""]
    ELSE yamlConfig[1].abbreviations[1]

\* C21: once loadComponentMappings has completed, getComponentName(fullName)
\* returns the abbreviation configured under
\* dimensions.component.abbreviations for every full name that has one,
\* and the full name unchanged for every name that has none.
C21_ConfiguredAbbreviationReturned ==
    (nameCall # <<>> /\ nameCall[1].loaded /\ nameCall[1].context = "label"
       /\ nameCall[1].fullName # "") =>
        nameCall[1].result =
            IF nameCall[1].fullName \in DOMAIN ConfiguredAbbreviations
            THEN ConfiguredAbbreviations[nameCall[1].fullName]
            ELSE nameCall[1].fullName

(***************************************************************************)
(* src/js/vendor_analysis.js, lines 1-1064: the vendor analysis page.      *)
(* Of the six filter controls the model has #componentFilter and           *)
(* #vendorSearch; the handlers of the other four have the same body        *)
(* (currentPage = 1; updateAnalysis()).                                    *)
(***************************************************************************)
MaxItemsPerPage == 2   \* analysis_settings.vendor_analysis.items_per_page

\* t occurs in s: String.prototype.includes
Includes(s, t) ==
    \E i \in 0..(Len(s) - Len(t)) : SubSeq(s, i + 1, i + Len(t)) = t

VENDOR_AB == <<"A", "b">>
VENDOR_ABC == <<"A", "b", "c">>
VENDOR_CD == <<"C", "d">>
VENDOR_DE == <<"D", "e">>
COMPONENT_FEMA == <<"F", "E", "M", "A">>
COMPONENT_CISA == <<"C", "I", "S", "A">>

\* processed_data/usaspending/awards_flat.json in the model: a vendor that
\* grows, a new one, a lost one, one that declines
AwardRecords ==
    <<[recipient_name |-> VENDOR_AB, component |-> COMPONENT_FEMA,
       fiscal_year |-> 2023, obligations |-> 2],
      [recipient_name |-> VENDOR_AB, component |-> COMPONENT_FEMA,
       fiscal_year |-> 2025, obligations |-> 4],
      [recipient_name |-> VENDOR_ABC, component |-> COMPONENT_FEMA,
       fiscal_year |-> 2025, obligations |-> 3],
      [recipient_name |-> VENDOR_CD, component |-> COMPONENT_CISA,
       fiscal_year |-> 2023, obligations |-> 5],
      [recipient_name |-> VENDOR_DE, component |-> COMPONENT_CISA,
       fiscal_year |-> 2023, obligations |-> 4],
      [recipient_name |-> VENDOR_DE, component |-> COMPONENT_CISA,
       fiscal_year |-> 2025, obligations |-> 1]>>

\* applyFilters, lines 174-217
applyFilters(awards, component, search) ==
    LET Keep(d) ==
            /\ (component = ALL \/ d.component = component)
            /\ (search = <<>>
                  \/ Includes(toLowerCase(d.recipient_name), toLowerCase(search)))
    IN  SelectSeq(awards, Keep)

\* processVendorComparison, lines 229-241: the keys of vendorsByYear, in
\* the order of their insertion
vendorNames(filtered) ==
    LET Add(names, record) ==
            IF \E i \in 1..Len(names) : names[i] = record.recipient_name
            THEN names ELSE Append(names, record.recipient_name)
    IN  FoldLeft(Add, <<>>, filtered)

\* processVendorComparison, lines 243-244: vendorsByYear[vendor][year].obligations
yearObligations(filtered, vendor, year) ==
    SumOver([k \in 1..Len(filtered) |-> filtered[k].obligations],
            {k \in 1..Len(filtered) : /\ filtered[k].recipient_name = vendor
                                      /\ filtered[k].fiscal_year = year})

\* processVendorComparison, lines 291-311: the comparison of one vendor;
\* change_percent is the pair <<numerator, denominator>> of its division
comparisonOf(filtered, vendor) ==
    LET fyPrev == yearObligations(filtered, vendor, 2023)
        fyCurr == yearObligations(filtered, vendor, 2025)
    IN  [vendor |-> vendor,
         fy2023_amount |-> fyPrev,
         fy2025_amount |-> fyCurr,
         change_amount |-> fyCurr - fyPrev,
         change_percent |-> IF fyPrev > 0 THEN <<(fyCurr - fyPrev) * 100, fyPrev>>
                            ELSE IF fyCurr > 0 THEN <<100, 1>> ELSE <<0, 1>>,
         is_new |-> fyPrev = 0 /\ fyCurr > 0,
         is_lost |-> fyPrev > 0 /\ fyCurr = 0]

\* Array.prototype.sort with the comparator "a goes before b when
\* Before(a, b)": stable
RECURSIVE sortedBy(_, _)
sortedBy(Before(_, _), s) ==
    IF s = <<>> THEN <<>>
    ELSE LET rest == sortedBy(Before, SubSeq(s, 1, Len(s) - 1))
             x    == s[Len(s)]
             ahead == {i \in 1..Len(rest) : ~Before(x, rest[i])}
             n == IF ahead = {} THEN 0
                  ELSE CHOOSE i \in ahead : \A o \in ahead : o <= i
         IN  SubSeq(rest, 1, n) \o <<x>> \o SubSeq(rest, n + 1, Len(rest))

\* sortVendors, lines 325-344
sortVendors(comparison, by) ==
    LET Before(a, b) ==
            CASE by = "fy2023" -> a.fy2023_amount > b.fy2023_amount
              [] by = "change" -> a.change_amount > b.change_amount
              [] OTHER         -> a.fy2025_amount > b.fy2025_amount
    IN  sortedBy(Before, comparison)

\* processVendorComparison, lines 222-320
processVendorComparison(filtered, by) ==
    LET names == vendorNames(filtered)
    IN  sortVendors([k \in 1..Len(names) |-> comparisonOf(filtered, names[k])], by)

\* slice(0, n)
firstN(s, n) == SubSeq(s, 1, IF Len(s) < n THEN Len(s) ELSE n)

\* getDisplayData, lines 744-763, and updateVisualization, lines 424-444
getDisplayData(comparison, view) ==
    LET Growth(a, b) == a.change_percent[1] * b.change_percent[2]
                           > b.change_percent[1] * a.change_percent[2]
        Decline(a, b) == a.change_percent[1] * b.change_percent[2]
                            < b.change_percent[1] * a.change_percent[2]
    IN  CASE view = "new"  -> SelectSeq(comparison, LAMBDA v : v.is_new)
          [] view = "lost" -> SelectSeq(comparison, LAMBDA v : v.is_lost)
          [] view = "top-growth" ->
                firstN(sortedBy(Growth,
                          SelectSeq(comparison,
                                    LAMBDA v : v.change_percent[1] > 0 /\ ~v.is_new)), 50)
          [] view = "top-decline" ->
                firstN(sortedBy(Decline,
                          SelectSeq(comparison,
                                    LAMBDA v : v.change_percent[1] < 0 /\ ~v.is_lost)), 50)
          [] OTHER -> comparison

\* Math.ceil(n / per)
totalPagesOf(n, per) == (n + per - 1) \div per

\* drawTreemap, lines 846-850 and 912: the leaves a click opens a vendor from
treemapVendors(comparison) ==
    LET Before(a, b) == a.fy2025_amount > b.fy2025_amount
        top == firstN(sortedBy(Before,
                         SelectSeq(comparison, LAMBDA v : v.fy2025_amount > 0)), 50)
    IN  [k \in 1..Len(top) |-> top[k].vendor]

\* updateVisualization, lines 413-505: what #chart shows afterwards
chartOf(comparison, view, page, per) ==
    IF view = "treemap"
    THEN [kind |-> "treemap", rows |-> treemapVendors(comparison)]
    ELSE LET displayData == getDisplayData(comparison, view)
             startIndex == (page - 1) * per
             last == IF startIndex + per < Len(displayData)
                     THEN startIndex + per ELSE Len(displayData)
             pageData == SubSeq(displayData, startIndex + 1, last)
         IN  [kind |-> "table", rows |-> [k \in 1..Len(pageData) |-> pageData[k].vendor]]

\* updatePagination, lines 768-784, as updateVisualization calls it;
\* drawTreemap leaves the controls as they are
updatePagination(controls, comparison, view, page, per) ==
    LET totalPages == totalPagesOf(Len(getDisplayData(comparison, view)), per)
    IN  IF view = "treemap" THEN controls
        ELSE IF totalPages <= 1 THEN [controls EXCEPT !.shown = FALSE]
        ELSE [shown |-> TRUE, prevDisabled |-> page = 1,
              nextDisabled |-> page = totalPages]

\* updateStats, lines 349-408: the two percentages it shows, each the pair
\* <<numerator, denominator>> of its division; the averages are the
\* fractions total2025 / totalVendors and total2023 / vendors2023, or 0
updateStats(comparison, view) ==
    LET viewData == getDisplayData(comparison, view)
        totalVendors == Cardinality({k \in 1..Len(viewData) : viewData[k].fy2025_amount > 0})
        totalAmount2025 ==
            SumOver([k \in 1..Len(viewData) |-> viewData[k].fy2025_amount],
                    1..Len(viewData))
        totalAmount2023 ==
            SumOver([k \in 1..Len(viewData) |-> viewData[k].fy2023_amount],
                    1..Len(viewData))
        vendors2023 ==
            Cardinality({k \in 1..Len(comparison) : comparison[k].fy2023_amount > 0})
        avgTransaction2025 == IF totalVendors > 0 THEN <<totalAmount2025, totalVendors>>
                              ELSE <<0, 1>>
        avgTransaction2023 == IF vendors2023 > 0 THEN <<totalAmount2023, vendors2023>>
                              ELSE <<0, 1>>
    IN  [amountChange |-> <<(totalAmount2025 - totalAmount2023) * 100, totalAmount2023>>,
         avgChange |->
            <<(avgTransaction2025[1] * avgTransaction2023[2]
                 - avgTransaction2023[1] * avgTransaction2025[2]) * 100,
              avgTransaction2025[2] * avgTransaction2023[1]>>]

\* updateAnalysis, lines 154-169
updateAnalysis ==
    /\ vendorComparison' =
          processVendorComparison(
              applyFilters(awardsData', componentFilter', vendorSearch'), sortBy')
    /\ stats' = <<updateStats(vendorComparison', vendorView')>>
    /\ chart' = chartOf(vendorComparison', vendorView', currentPage', itemsPerPage')
    /\ pagination' = updatePagination(pagination, vendorComparison', vendorView',
                                      currentPage', itemsPerPage')

\* updateVisualization, lines 413-505, on the vendorComparison there is
updateVisualization ==
    /\ chart' = chartOf(vendorComparison', vendorView', currentPage', itemsPerPage')
    /\ pagination' = updatePagination(pagination, vendorComparison', vendorView',
                                      currentPage', itemsPerPage')

InitVendor ==
    /\ VendorIdle
    /\ IdleBesideVendor

\* init, lines 15-65: the configuration and the awards have been read
VendorInit ==
    /\ ~vendorsReady
    /\ vendorsReady' = TRUE
    /\ awardsData' = AwardRecords
    /\ itemsPerPage' \in 1..MaxItemsPerPage
    /\ UNCHANGED <<componentFilter, vendorSearch, sortBy, vendorView, currentPage>>
    /\ updateAnalysis
    /\ UNCHANGED varsBesideVendor

\* lines 994-998
ChangeComponentFilter ==
    /\ vendorsReady
    /\ \E c \in {ALL, COMPONENT_FEMA, COMPONENT_CISA} \ {componentFilter} :
          componentFilter' = c
    /\ currentPage' = 1
    /\ UNCHANGED <<vendorsReady, awardsData, vendorSearch, sortBy, vendorView,
                   itemsPerPage>>
    /\ updateAnalysis
    /\ UNCHANGED varsBesideVendor

\* lines 1015-1018
InputVendorSearch ==
    /\ vendorsReady
    /\ \E term \in {<<>>, <<"a", "b">>, <<"d">>, <<"z">>} \ {vendorSearch} :
          vendorSearch' = term
    /\ currentPage' = 1
    /\ UNCHANGED <<vendorsReady, awardsData, componentFilter, sortBy, vendorView,
                   itemsPerPage>>
    /\ updateAnalysis
    /\ UNCHANGED varsBesideVendor

\* lines 1025-1028
ChangeSortBy ==
    /\ vendorsReady
    /\ \E by \in {"fy2025", "fy2023", "change"} \ {sortBy} :
          /\ sortBy' = by
          /\ vendorComparison' = sortVendors(vendorComparison, by)
    /\ UNCHANGED <<vendorsReady, awardsData, componentFilter, vendorSearch,
                   vendorView, currentPage, itemsPerPage, stats>>
    /\ updateVisualization
    /\ UNCHANGED varsBesideVendor

\* lines 1031-1039
ClickViewTab ==
    /\ vendorsReady
    /\ vendorView' \in {"comparison", "new", "lost", "top-growth", "top-decline",
                        "treemap"}
    /\ currentPage' = 1
    /\ UNCHANGED <<vendorsReady, awardsData, componentFilter, vendorSearch, sortBy,
                   itemsPerPage>>
    /\ updateAnalysis
    /\ UNCHANGED varsBesideVendor

\* lines 1042-1047
ClickPrevPage ==
    /\ vendorsReady
    /\ pagination.shown /\ ~pagination.prevDisabled
    /\ currentPage > 1
    /\ currentPage' = currentPage - 1
    /\ UNCHANGED <<vendorsReady, awardsData, componentFilter, vendorSearch, sortBy,
                   vendorView, itemsPerPage, vendorComparison, stats>>
    /\ updateVisualization
    /\ UNCHANGED varsBesideVendor

\* lines 1049-1055
ClickNextPage ==
    /\ vendorsReady
    /\ pagination.shown /\ ~pagination.nextDisabled
    /\ currentPage < totalPagesOf(Len(getDisplayData(vendorComparison, vendorView)),
                                  itemsPerPage)
    /\ currentPage' = currentPage + 1
    /\ UNCHANGED <<vendorsReady, awardsData, componentFilter, vendorSearch, sortBy,
                   vendorView, itemsPerPage, vendorComparison, stats>>
    /\ updateVisualization
    /\ UNCHANGED varsBesideVendor

\* drawTreemap, lines 912-931: a click on the node of a vendor
ClickTreemapNode ==
    /\ vendorsReady
    /\ chart.kind = "treemap"
    /\ \E k \in 1..Len(chart.rows) : vendorSearch' = chart.rows[k]
    /\ vendorView' = "comparison"
    /\ UNCHANGED <<vendorsReady, awardsData, componentFilter, sortBy, currentPage,
                   itemsPerPage>>
    /\ updateAnalysis
    /\ UNCHANGED varsBesideVendor

NextVendor ==
    \/ VendorInit
    \/ ChangeComponentFilter
    \/ InputVendorSearch
    \/ ChangeSortBy
    \/ ClickViewTab
    \/ ClickPrevPage
    \/ ClickNextPage
    \/ ClickTreemapNode

SpecVendor == InitVendor /\ [][NextVendor]_vars

(***************************************************************************)
(* C22.  The page of the vendor table.                                     *)
(***************************************************************************)
\* the vendors the current view displays
DisplayedVendors == getDisplayData(vendorComparison, vendorView)

MaxPendingLoads == 2   \* calls of loadDataSource in flight at a time

DataSources == {"apportionment", "obligations", "awards"}

\* s without its element at position i
RemoveAt(s, i) == SubSeq(s, 1, i - 1) \o SubSeq(s, i + 1, Len(s))

\* updateVisualization, lines 196-243: what is drawn, given the dropdown,
\* currentSource, the loaded sources and the controls on the page
drawnVisualization(selected, current, loaded, grouping, filterControls) ==
    IF grouping = "" THEN [kind |-> "error"]        \* no radio to be checked
    ELSE IF selected \notin loaded THEN [kind |-> "error"]
    ELSE [kind |-> "treemap",
          data |-> selected,                \* flatData[sourceName]
          valueField |-> current,           \* getValueField()
          grouping |-> grouping,            \* getSelectedGrouping()
          filters |-> filterControls]       \* getActiveFilters()

InitExplorer ==
    /\ ExplorerIdle
    /\ IdleBesideExplorer

\* init, lines 24-46; ok is whether the first load succeeds
ExplorerInit ==
    /\ ~explorerReady
    /\ explorerReady' = TRUE
    /\ \E ok \in BOOLEAN :
          /\ flatData' = IF ok THEN {currentSource} ELSE {}
          /\ failedLoads' = IF ok THEN {} ELSE {currentSource}
          /\ groupingOptions' = IF ok THEN currentSource ELSE groupingOptions
          /\ filterRow' = IF ok THEN currentSource ELSE filterRow
    /\ visualization' = drawnVisualization(dataSource, currentSource, flatData',
                                           groupingOptions', filterRow')
    /\ UNCHANGED <<dataSource, currentSource, pendingLoads>>
    /\ UNCHANGED varsBesideExplorer

\* the change handler of #dataSource up to its await, lines 476-478 and
\* 78-84
ChangeDataSource ==
    /\ explorerReady
    /\ Len(pendingLoads) < MaxPendingLoads
    /\ \E s \in DataSources \ {dataSource} :
          /\ dataSource' = s
          /\ currentSource' = s
          /\ pendingLoads' = Append(pendingLoads, s)
    /\ visualization' = [kind |-> "loading"]
    /\ UNCHANGED <<explorerReady, flatData, failedLoads, groupingOptions, filterRow>>
    /\ UNCHANGED varsBesideExplorer

\* a fetch resolves: the rest of loadDataSource, lines 85-104, and of the
\* handler, line 479
LoadDataSourceCompletes ==
    /\ \E i \in 1..Len(pendingLoads) :
          /\ flatData' = flatData \cup {pendingLoads[i]}
          /\ groupingOptions' = pendingLoads[i]
          /\ filterRow' = pendingLoads[i]
          /\ pendingLoads' = RemoveAt(pendingLoads, i)
    /\ visualization' = drawnVisualization(dataSource, currentSource, flatData',
                                           groupingOptions', filterRow')
    /\ UNCHANGED <<explorerReady, dataSource, currentSource, failedLoads>>
    /\ UNCHANGED varsBesideExplorer

\* a fetch rejects: the catch of loadDataSource, lines 106-109, and the
\* rest of the handler, line 479
LoadDataSourceFails ==
    /\ \E i \in 1..Len(pendingLoads) :
          /\ failedLoads' = failedLoads \cup {pendingLoads[i]}
          /\ pendingLoads' = RemoveAt(pendingLoads, i)
    /\ visualization' = drawnVisualization(dataSource, currentSource, flatData,
                                           groupingOptions, filterRow)
    /\ UNCHANGED <<explorerReady, dataSource, currentSource, flatData,
                   groupingOptions, filterRow>>
    /\ UNCHANGED varsBesideExplorer

\* the change handler of #groupByOptions, lines 483-485
ChangeGrouping ==
    /\ explorerReady
    /\ groupingOptions # ""
    /\ visualization' = drawnVisualization(dataSource, currentSource, flatData,
                                           groupingOptions, filterRow)
    /\ UNCHANGED <<explorerReady, dataSource, currentSource, flatData, pendingLoads,
                   failedLoads, groupingOptions, filterRow>>
    /\ UNCHANGED varsBesideExplorer

\* the change handler of #filterRow, lines 488-490
ChangeFilterRow ==
    /\ explorerReady
    /\ filterRow # ""
    /\ visualization' = drawnVisualization(dataSource, currentSource, flatData,
                                           groupingOptions, filterRow)
    /\ UNCHANGED <<explorerReady, dataSource, currentSource, flatData, pendingLoads,
                   failedLoads, groupingOptions, filterRow>>
    /\ UNCHANGED varsBesideExplorer

NextExplorer ==
    \/ ExplorerInit
    \/ ChangeDataSource
    \/ LoadDataSourceCompletes
    \/ LoadDataSourceFails
    \/ ChangeGrouping
    \/ ChangeFilterRow

SpecExplorer == InitExplorer /\ [][NextExplorer]_vars

(***************************************************************************)
(* C23.  The page follows the selected source.                             *)
(***************************************************************************)
\* C23: after any sequence of data-source changes, also one made while
\* an earlier source is still loading, once all pending loads have
\* completed (none has failed) the grouping options, the filter controls
\* and the drawn visualization all correspond to the source selected in
\* the dataSource dropdown.
C23_PageFollowsSelectedSource ==
    (explorerReady /\ pendingLoads = <<>> /\ failedLoads = {}) =>
        /\ groupingOptions = dataSource
        /\ filterRow = dataSource
        /\ visualization = [kind |-> "treemap", data |-> dataSource,
                            valueField |-> dataSource, grouping |-> dataSource,
                            filters |-> dataSource]

(***************************************************************************)
(* src/treemap.js: the budget treemap.  A node of the hierarchy is a       *)
(* record with its name, its level, the fields buildHierarchy matches it   *)
(* by, its children and, for a leaf, its amount.                           *)
(***************************************************************************)
OPERATIONS == "Operations and Support"
DISASTER_RELIEF == "Disaster Relief Fund"
ANALYSIS == "Analysis and Operations"

\* data/dhs_budget_flat.json in the model; one bureau has an account of
\* its own name
TreemapRecords ==
    <<[bureau |-> "FEMA", account |-> OPERATIONS, tas |-> "070-0700",
       fiscal_year |-> 2024, availability_type |-> "annual", amount |-> 5],
      [bureau |-> "FEMA", account |-> OPERATIONS, tas |-> "070-0700",
       fiscal_year |-> 2025, availability_type |-> "annual", amount |-> 3],
      [bureau |-> "FEMA", account |-> DISASTER_RELIEF, tas |-> "070-0702",
       fiscal_year |-> 2025, availability_type |-> "no-year", amount |-> 4],
      [bureau |-> ANALYSIS, account |-> ANALYSIS, tas |-> "070-0115",
       fiscal_year |-> 2025, availability_type |-> "annual", amount |-> 2]>>

\* VIEW_CONFIGS, lines 17-124: the hierarchy of each view
viewHierarchy(view) ==
    CASE view = "bureau-only" -> <<"bureau">>
      [] view = "default"     -> <<"bureau", "account", "tas">>
      [] view = "no-tas"      -> <<"bureau", "account">>
      [] view = "by-year"     -> <<"bureau", "fiscal_year">>
      [] view = "tas"         -> <<"bureau", "account", "fiscal_year">>

TreemapViews == {"bureau-only", "default", "no-tas", "by-year", "tas"}

\* `FY ${record.fiscal_year}` and fiscal_year.toString()
yearName(y) == IF y = 2024 THEN "FY 2024" ELSE "FY 2025"
yearText(y) == IF y = 2024 THEN "2024" ELSE "2025"

\* VIEW_CONFIGS[view].nodeData[level](record), with level and the children
\* or the amount buildHierarchy adds, lines 290-305
newNode(level, record, leaf) ==
    [name |-> CASE level = "bureau" -> record.bureau
                [] level = "account" -> record.account
                [] level = "tas" -> record.tas
                [] level = "fiscal_year" -> yearName(record.fiscal_year),
     level |-> level,
     bureau |-> record.bureau,
     account |-> IF level = "bureau" THEN "" ELSE record.account,
     tas |-> IF level \in {"tas", "fiscal_year"} THEN record.tas ELSE "",
     fiscal_year |-> IF level \in {"tas", "fiscal_year"} THEN record.fiscal_year ELSE 0,
     leaf |-> leaf,
     children |-> <<>>,
     amount |-> 0]

\* buildHierarchy, lines 279-286: the child of parent that record falls
\* under at level, 0 if there is none
childIndex(parent, level, record) ==
    LET Matches(child) ==
            CASE level = "bureau" -> child.bureau = record.bureau
              [] level = "account" -> child.account = record.account
                                        /\ child.bureau = record.bureau
              [] level = "fiscal_year" -> child.fiscal_year = record.fiscal_year
              [] level = "tas" -> child.tas = record.tas
        hits == {i \in 1..Len(parent.children) : Matches(parent.children[i])}
    IN  IF hits = {} THEN 0 ELSE MinOf(hits)

\* buildHierarchy, lines 274-313: record is put under node along levels
RECURSIVE insertRecord(_, _, _)
insertRecord(node, record, levels) ==
    IF levels = <<>>
    THEN IF node.leaf THEN [node EXCEPT !.amount = @ + record.amount] ELSE node
    ELSE LET level == Head(levels)
             i     == childIndex(node, level, record)
             child == IF i = 0 THEN newNode(level, record, Len(levels) = 1)
                      ELSE node.children[i]
             grown == insertRecord(child, record, Tail(levels))
         IN  [node EXCEPT !.children = IF i = 0 THEN Append(@, grown)
                                       ELSE [@ EXCEPT ![i] = grown]]

TreemapRoot ==
    [name |-> "All Components", level |-> "", bureau |-> "", account |-> "",
     tas |-> "", fiscal_year |-> 0, leaf |-> FALSE, children |-> <<>>, amount |-> 0]

\* buildHierarchy, lines 249-326
buildHierarchy(records, view, f) ==
    LET Keep(r) ==
            /\ (f.component = "all" \/ r.bureau = f.component)
            /\ (f.year = "all" \/ yearText(r.fiscal_year) = f.year)
            /\ (f.availability = "all" \/ r.availability_type = f.availability)
        Add(root, r) == insertRecord(root, r, viewHierarchy(view))
    IN  FoldLeft(Add, TreemapRoot, SelectSeq(records, Keep))

\* updateVisualization, lines 335-343: the node the steps of path lead to
\* from node, <<>> if a step finds no child of its name
RECURSIVE followPath(_, _)
followPath(node, path) ==
    IF path = <<>> THEN <<node>>
    ELSE LET hits == {i \in 1..Len(node.children) : node.children[i].name = Head(path)}
         IN  IF hits = {} THEN <<>>
             ELSE followPath(node.children[MinOf(hits)], Tail(path))

\* mutant: a path that does not resolve is kept, with the node shown before
displayedAfter_NoReset(root, path, shown) ==
    IF followPath(root, path) = <<>>
    THEN [breadcrumbPath |-> path, currentData |-> shown]
    ELSE [breadcrumbPath |-> path, currentData |-> followPath(root, path)]

\* updateVisualization, lines 328-354, with navigateToRoot, lines 243-247:
\* the path and the node displayed when the call returns
displayedAfter(root, path, shown) ==
    IF followPath(root, path) = <<>>
    THEN [breadcrumbPath |-> <<>>, currentData |-> <<root>>]
    ELSE [breadcrumbPath |-> path, currentData |-> followPath(root, path)]

\* updateVisualization, lines 328-354, called with breadcrumbPath = path
treemapUpdateVisualization(path) ==
    IF ~treemapLoaded'
    THEN /\ breadcrumbPath' = path
         /\ UNCHANGED currentData
    ELSE LET after == displayedAfter(
                          buildHierarchy(TreemapRecords, treemapView', treemapFilters'),
                          path, currentData)
         IN  /\ breadcrumbPath' = after.breadcrumbPath
             /\ currentData' = after.currentData

\* the descendants of node, each as the child indices that lead to it
RECURSIVE positionsIn(_)
positionsIn(node) ==
    {<<>>} \cup UNION {{<<i>> \o p : p \in positionsIn(node.children[i])} :
                          i \in 1..Len(node.children)}

\* the descendant of node at position pos
RECURSIVE nodeAt(_, _)
nodeAt(node, pos) ==
    IF pos = <<>> THEN node ELSE nodeAt(node.children[Head(pos)], Tail(pos))

\* handleNodeClick, lines 452-460: the names the walk from the parent of
\* the node at pos towards the root collects before it meets a node of
\* the name of the displayed node
clickPath(shown, pos) ==
    LET sameName == {k \in 0..(Len(pos) - 1) :
                        nodeAt(shown, SubSeq(pos, 1, k)).name = shown.name}
        stop == CHOOSE k \in sameName : \A o \in sameName : o <= k
    IN  [k \in 1..(Len(pos) - 1 - stop) |-> nodeAt(shown, SubSeq(pos, 1, stop + k)).name]

\* the names of the ancestors of the descendant of node at pos that lie
\* strictly between node and that descendant, from the top down
namesBetween(node, pos) ==
    [k \in 1..(Len(pos) - 1) |-> nodeAt(node, SubSeq(pos, 1, k)).name]

InitTreemap ==
    /\ TreemapIdle
    /\ IdleBesideTreemap

\* lines 179-194: the records have arrived
TreemapDataLoaded ==
    /\ ~treemapLoaded
    /\ treemapLoaded' = TRUE
    /\ UNCHANGED <<treemapFilters, treemapView, lastClick>>
    /\ treemapUpdateVisualization(breadcrumbPath)
    /\ UNCHANGED varsBesideTreemap

\* lines 224-226: a change of one of the three filters
ChangeTreemapFilter ==
    /\ \E f \in [component : {"all", "FEMA", ANALYSIS}, year : {"all", "2024", "2025"},
                 availability : {"all", "annual", "no-year"}] :
          /\ \E field \in {"component", "year", "availability"} :
                /\ f[field] # treemapFilters[field]
                /\ \A other \in {"component", "year", "availability"} \ {field} :
                      f[other] = treemapFilters[other]
          /\ treemapFilters' = f
    /\ UNCHANGED <<treemapLoaded, treemapView, lastClick>>
    /\ treemapUpdateVisualization(breadcrumbPath)
    /\ UNCHANGED varsBesideTreemap

\* lines 227-230: a change of #aggregateBy
ChangeAggregateBy ==
    /\ \E v \in TreemapViews \ {treemapView} : treemapView' = v
    /\ UNCHANGED <<treemapLoaded, treemapFilters, lastClick>>
    /\ treemapUpdateVisualization(<<>>)
    /\ UNCHANGED varsBesideTreemap

\* lines 231-238: a click on #resetFilters
ResetFilters ==
    /\ treemapFilters' = [component |-> "all", year |-> "all", availability |-> "all"]
    /\ treemapView' = "bureau-only"
    /\ UNCHANGED <<treemapLoaded, lastClick>>
    /\ treemapUpdateVisualization(<<>>)
    /\ UNCHANGED varsBesideTreemap

\* handleNodeClick, lines 451-466: a click on one of the drawn nodes
HandleNodeClick ==
    /\ treemapLoaded
    /\ UNCHANGED <<treemapLoaded, treemapFilters, treemapView>>
    /\ \E pos \in positionsIn(currentData[1]) \ {<<>>} :
          LET path == clickPath(currentData[1], pos)
          IN  /\ lastClick' = <<[between |-> namesBetween(currentData[1], pos),
                                 before |-> breadcrumbPath,
                                 after |-> breadcrumbPath \o path]>>
              /\ IF path # <<>>
                 THEN treemapUpdateVisualization(breadcrumbPath \o path)
                 ELSE UNCHANGED <<breadcrumbPath, currentData>>
    /\ UNCHANGED varsBesideTreemap

\* updateBreadcrumb, lines 551-560: a click on a step of the breadcrumb
ClickBreadcrumbStep ==
    /\ treemapLoaded
    /\ UNCHANGED <<treemapLoaded, treemapFilters, treemapView, lastClick>>
    /\ \E i \in 1..Len(breadcrumbPath) :
          treemapUpdateVisualization(SubSeq(breadcrumbPath, 1, i))
    /\ UNCHANGED varsBesideTreemap

\* updateBreadcrumb, lines 537-542: a click on "Back to top"
ClickBackToTop ==
    /\ treemapLoaded
    /\ breadcrumbPath # <<>>
    /\ UNCHANGED <<treemapLoaded, treemapFilters, treemapView, lastClick>>
    /\ treemapUpdateVisualization(<<>>)
    /\ UNCHANGED varsBesideTreemap

NextTreemap ==
    \/ TreemapDataLoaded
    \/ ChangeTreemapFilter
    \/ ChangeAggregateBy
    \/ ResetFilters
    \/ HandleNodeClick
    \/ ClickBreadcrumbStep
    \/ ClickBackToTop

SpecTreemap == InitTreemap /\ [][NextTreemap]_vars

(***************************************************************************)
(* C24.  The breadcrumb and the displayed node.                            *)
(***************************************************************************)
\* the hierarchy of the current filters and view
CurrentHierarchy == buildHierarchy(TreemapRecords, treemapView, treemapFilters)

\* the names on the way from node to its descendant at pos
namesAlong(node, pos) == [k \in 1..Len(pos) |-> nodeAt(node, SubSeq(pos, 1, k)).name]

\* C24: after every completed call of updateVisualization, breadcrumbPath
\* names a path that exists from the root of the hierarchy built from the
\* current filters and view, and currentData is the node at its end (a
\* path that no longer resolves has been reset to the empty path).
C24_BreadcrumbResolves ==
    treemapLoaded =>
        \E pos \in positionsIn(CurrentHierarchy) :
            /\ namesAlong(CurrentHierarchy, pos) = breadcrumbPath
            /\ currentData = <<nodeAt(CurrentHierarchy, pos)>>

\* the user had drilled down into FEMA, then filtered on another
\* component: the path no longer resolved and is empty now
C24_Witness ==
    /\ treemapLoaded
    /\ lastClick # <<>>
    /\ lastClick[1].after # <<>>
    /\ lastClick[1].after[1] = "FEMA"
    /\ treemapFilters.component = ANALYSIS
    /\ treemapView = "tas"
    /\ breadcrumbPath = <<>>
    /\ currentData = <<CurrentHierarchy>>

(***************************************************************************)
(* C30.  Drilling down by a click on a node.                               *)
(***************************************************************************)
\* C30: a click on a node two or more levels below the displayed node
\* extends breadcrumbPath by the names of all ancestors strictly between
\* the displayed node and the clicked node, from the top down; a click on
\* a direct child of the displayed node leaves breadcrumbPath unchanged.
C30_ClickExtendsPathByAncestors ==
    lastClick # <<>> =>
        lastClick[1].after = lastClick[1].before \o lastClick[1].between

(***************************************************************************)
(* src/js/config_loader.js: the DataConfig instance.  A YAML document is   *)
(* the record of its three required sections, each <<>> when the document  *)
(* lacks it; NullDocument is the empty document, which jsyaml.load turns   *)
(* into undefined.                                                         *)
(***************************************************************************)
NullDocument == [document |-> "undefined"]

SchemaDimensions == [component |-> "Component"]
SchemaDataSources == [apportionment |-> "Apportionment"]
SchemaValidGroupings == <<"component">>

YamlDocuments ==
    [dimensions : {<<>>, <<SchemaDimensions>>},
     data_sources : {<<>>, <<SchemaDataSources>>},
     valid_groupings : {<<>>, <<SchemaValidGroupings>>}]

\* what fetch and the page give to load(): the status of the response,
\* whether js-yaml is on the page, and the document
LoadInputs ==
    [ok : BOOLEAN, jsyaml : BOOLEAN, document : YamlDocuments \cup {NullDocument}]

\* _validateConfig, lines 45-52: TRUE when it returns, FALSE when it throws
\* (a missing section, or the read of a section of undefined)
validateConfig(document) ==
    /\ document # NullDocument
    /\ document.dimensions # <<>>
    /\ document.data_sources # <<>>
    /\ document.valid_groupings # <<>>

NOT_LOADED == "Configuration not loaded. Call load() first."

\* getDimension, lines 57-60, and getDataSource, lines 65-68, with
\* _ensureLoaded, lines 331-335
accessorOutcome(section, name) ==
    IF ~configLoaded THEN NOT_LOADED
    ELSE IF config[1] = NullDocument \/ config[1][section] = <<>> THEN "TypeError"
    ELSE IF name \in DOMAIN config[1][section][1] THEN config[1][section][1][name]
    ELSE "{}"

InitConfig ==
    /\ ConfigIdle
    /\ IdleBesideConfig

\* load, lines 15-40
Load ==
    /\ \E input \in LoadInputs :
          IF ~input.ok \/ ~input.jsyaml
          THEN /\ loadResult' = "rejected"
               /\ UNCHANGED <<config, configLoaded>>
          ELSE /\ config' = <<input.document>>
               /\ configLoaded' = TRUE   \* line 31, before _validateConfig
               /\ loadResult' = IF validateConfig(input.document)
                                THEN "resolved" ELSE "rejected"
    /\ UNCHANGED accessorResult
    /\ UNCHANGED varsBesideConfig

\* getDimension, lines 57-60
GetDimension ==
    /\ \E name \in {"component", "bureau"} :
          accessorResult' = <<[call |-> "getDimension", name |-> name,
                               outcome |-> accessorOutcome("dimensions", name)]>>
    /\ UNCHANGED <<config, configLoaded, loadResult>>
    /\ UNCHANGED varsBesideConfig

\* getDataSource, lines 65-68
GetDataSource ==
    /\ \E name \in {"apportionment", "awards"} :
          accessorResult' = <<[call |-> "getDataSource", name |-> name,
                               outcome |-> accessorOutcome("data_sources", name)]>>
    /\ UNCHANGED <<config, configLoaded, loadResult>>
    /\ UNCHANGED varsBesideConfig

NextConfig ==
    \/ Load
    \/ GetDimension
    \/ GetDataSource

SpecConfig == InitConfig /\ [][NextConfig]_vars

(***************************************************************************)
(* C25.  A rejected load.                                                  *)
(***************************************************************************)
\* C25: if load() rejects for any reason while the instance is not
\* loaded, loaded remains false, and every accessor guarded by
\* _ensureLoaded called while the last load has rejected and none has
\* succeeded throws 'Configuration not loaded. Call load() first.'
C25_RejectedLoadLeavesNotLoaded ==
    [][/\ (~configLoaded /\ loadResult' = "rejected") => ~configLoaded'
       /\ (~configLoaded /\ loadResult = "rejected" /\ accessorResult' # accessorResult)
             => accessorResult'[1].outcome = NOT_LOADED]_vars

(***************************************************************************)
(* C26.  The order of the input rows.                                      *)
(***************************************************************************)
\* the rows of s in every order
Reorderings(s) ==
    {[i \in 1..Len(s) |-> s[p[i]]] :
        p \in {q \in [1..Len(s) -> 1..Len(s)] :
                  \A i, j \in 1..Len(s) : q[i] = q[j] => i = j}}

\* the totals of every account of the per-account records m
AccountTotals(m) ==
    {[tas |-> m[i].tas, apportionment |-> m[i].apportionment,
      obligations |-> m[i].obligations, outlays |-> m[i].outlays] :
        i \in 1..Len(m)}

\* C26: the result of combineData does not depend on the order of the
\* input rows: for every permutation of the execution rows and of the
\* apportionment rows, every account's apportionment, obligations and
\* outlays totals are the same.
C26_CombineDataIgnoresRowOrder ==
    (Ready /\ usaspendingData # <<>>) =>
        \A ap \in Reorderings(ApRowsLoaded), us \in Reorderings(UsRows) :
            AccountTotals(dataArray2(ap, <<us>>, filters)) = AccountTotals(dataArray)

(***************************************************************************)
(* C27.  aggregateByView and the totals.                                   *)
(***************************************************************************)
\* the sum of column field over the rows of s
ColumnSum(s, field) == SumOver([i \in 1..Len(s) |-> s[i][field]], 1..Len(s))

\* C27: aggregateByView conserves the totals in every view: the sums of
\* apportionment, obligations and outlays over the returned groups equal
\* the sums over its input rows, the group counts sum to the number of
\* input rows, and the groups are ordered by non-increasing apportionment.
C27_AggregateByViewConservesTotals ==
    /\ \A field \in {"apportionment", "obligations", "outlays"} :
          ColumnSum(combinedData, field) = ColumnSum(tasData, field)
    /\ ColumnSum(combinedData, "count") = Len(tasData)
    /\ \A i \in 1..(Len(combinedData) - 1) :
          combinedData[i].apportionment >= combinedData[i + 1].apportionment

\* two rows with amounts of their own fall into one group of a view
\* other than the default one
C27_Witness ==
    /\ outcome = "ok"
    /\ currentView = "fund_type"
    /\ Len(tasData) = 2
    /\ tasData[1].apportionment > 0 /\ tasData[2].apportionment > 0
    /\ tasData[1].obligations # 0 /\ tasData[2].obligations # 0
    /\ Len(combinedData) = 1
    /\ combinedData[1].count = 2

(***************************************************************************)
(* C28.  The change indicators of the vendor statistics.                   *)
(***************************************************************************)
\* C28: the vendor statistics never divide by zero: in every filter and
\* view state, also when the displayed vendors have no previous-year
\* obligations or no vendor is displayed at all, the amount-change and
\* average-change percentages updateStats shows are finite numbers.
C28_StatsPercentagesFinite ==
    stats # <<>> => (stats[1].amountChange[2] # 0 /\ stats[1].avgChange[2] # 0)

(***************************************************************************)
(* src/awards.js: the awards treemap.  Names are sequences of characters,  *)
(* so that the key of a group is built and taken apart as the code does.   *)
(***************************************************************************)
MaxAwards == 2         \* records in awards_flat.json

PIPE == <<"|">>

\* processed_data/usaspending/awards_flat.json: the records it may hold
AwardsCatalog ==
    [component : {<<"A">>, <<"A", "|", "B">>},
     award_type : {<<"C">>, <<"B", "|", "C">>},
     fiscal_year : {2025},
     obligations : {1},
     outlays : {0}]

\* String.prototype.split('|')[0] and the rest joined by '|' again: the
\* text before the first '|' of key and the text behind it
splitAtFirstPipe(key) ==
    LET pipes == {i \in 1..Len(key) : key[i] = "|"}
        first == IF pipes = {} THEN Len(key) + 1 ELSE MinOf(pipes)
    IN  <<SubSeq(key, 1, first - 1), SubSeq(key, first + 1, Len(key))>>

\* filterData, lines 60-81
filterData(records, f) ==
    LET Keep(d) ==
            /\ d.fiscal_year = f.fiscalYear
            /\ (f.component = ALL \/ d.component = f.component)
            /\ (f.awardType = ALL \/ d.award_type = f.awardType)
    IN  SelectSeq(records, Keep)

\* buildHierarchy, line 112: the key of the group of a record
componentTypeKey(d) == d.component \o PIPE \o d.award_type

\* aggregateData, lines 83-103: the groups in the order of their first
\* record, each with its key
aggregateAwards(data) ==
    LET Add(groups, record) ==
            LET key  == componentTypeKey(record)
                hits == {i \in 1..Len(groups) : groups[i].key = key}
                g1   == IF hits # {} THEN groups
                        ELSE Append(groups, [key |-> key, obligations |-> 0,
                                             outlays |-> 0, count |-> 0])
                j    == IF hits # {} THEN MinOf(hits) ELSE Len(g1)
            IN  [g1 EXCEPT ![j].obligations = @ + record.obligations,
                           ![j].outlays = @ + record.outlays,
                           ![j].count = @ + 1]
    IN  FoldLeft(Add, <<>>, data)

\* buildHierarchy, lines 105-129: root.children
awardsHierarchy(filteredData) ==
    LET byComponentType == aggregateAwards(filteredData)
    IN  [k \in 1..Len(byComponentType) |->
            LET parts == splitAtFirstPipe(byComponentType[k].key)
            IN  [component |-> parts[1],
                 award_type |-> parts[2],
                 value |-> byComponentType[k].obligations,
                 count |-> byComponentType[k].count]]

\* updateVisualization, lines 152-170
awardsUpdateVisualization ==
    awardsChildren' = awardsHierarchy(filterData(awardsFlat'[1], awardsFilters'))

InitAwards ==
    /\ AwardsIdle
    /\ IdleBesideAwards

\* init, lines 14-52
AwardsInit ==
    /\ awardsFlat = <<>>
    /\ \E records \in SeqsUpTo(AwardsCatalog, MaxAwards) : awardsFlat' = <<records>>
    /\ UNCHANGED awardsFilters
    /\ awardsUpdateVisualization
    /\ UNCHANGED varsBesideAwards

\* setupEventListeners, lines 55-59: a change of one of the three filters
ChangeAwardsFilter ==
    /\ awardsFlat # <<>>
    /\ \E f \in [fiscalYear : {2024, 2025},
                 component : {ALL} \cup {r.component : r \in AwardsCatalog},
                 awardType : {ALL} \cup {r.award_type : r \in AwardsCatalog}] :
          /\ Cardinality({field \in {"fiscalYear", "component", "awardType"} :
                             f[field] # awardsFilters[field]}) = 1
          /\ awardsFilters' = f
    /\ UNCHANGED awardsFlat
    /\ awardsUpdateVisualization
    /\ UNCHANGED varsBesideAwards

NextAwards ==
    \/ AwardsInit
    \/ ChangeAwardsFilter

SpecAwards == InitAwards /\ [][NextAwards]_vars

(***************************************************************************)
(* C29.  The keys of the groups.                                           *)
(***************************************************************************)
\* the records the awards treemap is drawn from
AwardsShown ==
    IF awardsFlat = <<>> THEN <<>> ELSE filterData(awardsFlat[1], awardsFilters)

\* C29: grouping keys are injective: records whose (component, award_type)
\* differ are never placed in the same group, and the fields recovered
\* from the key of a group are the fields of its records, also when a
\* field value contains the '|' separator: every displayed record has
\* exactly one group of its component and award type, and that group
\* counts exactly the records of that component and award type.
C29_GroupingKeysInjective ==
    \A i \in 1..Len(AwardsShown) :
        LET r == AwardsShown[i]
            same == {j \in 1..Len(AwardsShown) :
                        /\ AwardsShown[j].component = r.component
                        /\ AwardsShown[j].award_type = r.award_type}
            groups == {k \in 1..Len(awardsChildren) :
                          /\ awardsChildren[k].component = r.component
                          /\ awardsChildren[k].award_type = r.award_type}
        IN  /\ Cardinality(groups) = 1
            /\ \A k \in groups : awardsChildren[k].count = Cardinality(same)

====
